---- MODULE Spec2Model ----
(***************************************************************************)
(* A model of the SIMASTER portal adapter (src/src/simaster.py):           *)
(*   - the session manager: get_cache_key, get_simaster_session and the    *)
(*     module-level cachelib.SimpleCache `cache`;                          *)
(*   - the RPP-page scrapers: get_logbook_entries_by_id and                *)
(*     get_bantu_pic_entries, loop iteration by loop iteration;            *)
(*   - the submit operations: post_kkn_presensi, add_kkn_logbook_entry,    *)
(*     create_sub_entry_base and post_attendance_for_sub_entry;            *)
(* and of parse_datetime_range (src/src/kkn_utils.py, src/src/timeline.py).*)
(*                                                                         *)
(* Text is a sequence of tokens.  A token stands for a run of characters   *)
(* without whitespace (a word, a bracket, a clock time); " " and "\n" are  *)
(* single whitespace characters.  A requests.Session object is identified  *)
(* by the number of the requests.Session() construction that made it.      *)
(***************************************************************************)
EXTENDS Integers, Sequences, FiniteSets, TLC

VARIABLES
    \* session manager (simaster.py:21-72)
    cache,          \* the SimpleCache: key -> NoEntry or [ses, expires]
    now,            \* time() in seconds
    ticks,          \* number of clock advances so far
    sessions,       \* number of requests.Session() objects constructed so far
    lastCall,       \* what the last finished get_simaster_session call did (history only)
    \* scrapers (simaster.py:295-498)
    op,             \* which scraper runs: "logbook", "pic" or "none"
    rows,           \* the <tr> rows the xpath selected, each a sequence of <td> texts
    pc,             \* position of the scraper: "outer", "inner" or "done"
    i,              \* index of the outer loop (1-based here, 0-based in the code)
    j,              \* index of the look-ahead loop of get_logbook_entries_by_id
    entries,        \* entries / pic_entries built so far
    entry_data,     \* the main entry under construction
    all_sub_attended,
    notattendedflag,
    sub_entry_found,
    scans,          \* per row, how often the outer loop examined it (history only)
    result,         \* what the scraper returned
    container,      \* whether the page held the element the rows are looked up in
    \* parse_datetime_range (kkn_utils.py:405-441, timeline.py:21-52)
    given,          \* the parts the string was put together from (history only)
    datetime_str,   \* the argument of parse_datetime_range
    parsed,         \* the pair it returned
    \* submit operations (simaster.py:73-131, 217-270, 500-685)
    submit,         \* what the one call of a submit operation met and did
    \* two threads in get_simaster_session (simaster.py:29-72)
    callers,        \* per caller: where it stands in get_simaster_session and its locals
    \* get_kkn_programs (simaster.py:133-214) and the Session's cookies
    jar,            \* ses.cookies: the cookies named simasterUGM_cookie, in iteration order
    programs,       \* what the last call of get_kkn_programs met and did (history only)
    \* generate_random_point (utils.py:6-45)
    point,          \* the arguments, the two random draws and the returned point
    \* the attendance server (main.py:12-74, utils.py:53-88)
    scheduler,      \* the clock, where main stands and the calls of submit_kkn_attendance
    \* the interactive menu (kkn_utils.py:664-728)
    menu            \* main's session variable and what the menu loop did with it

sessionVars == <<cache, now, ticks, sessions, lastCall>>
scrapeVars == <<op, rows, pc, i, j, entries, entry_data, all_sub_attended,
                notattendedflag, sub_entry_found, scans, result, container>>
parseVars == <<given, datetime_str, parsed>>
submitVars == <<submit>>
concurrentVars == <<callers>>
programsVars == <<jar, programs>>
pointVars == <<point>>
schedulerVars == <<scheduler>>
menuVars == <<menu>>
vars == <<cache, now, ticks, sessions, lastCall,
          op, rows, pc, i, j, entries, entry_data, all_sub_attended,
          notattendedflag, sub_entry_found, scans, result, container,
          given, datetime_str, parsed, submit,
          callers, jar, programs, point, scheduler, menu>>

(***************************************************************************)
(* Bounds of the model.                                                    *)
(***************************************************************************)
MaxSessions == 3    \* requests.Session() constructions explored
MaxTicks == 2       \* clock advances explored
MaxRows == 4        \* rows of a scraped table
MaxHidden == 2      \* hidden inputs of a form
MaxCalls == 2       \* calls of get_simaster_session per thread
MaxOperations == 2
MaxRoot == 4
MaxPasses == 2
MaxChoices == 3

(***************************************************************************)
(* Values shared by the operations                                         *)
(***************************************************************************)
\* What a scraper handed to its caller: nothing yet, None, an exception
\* that left the function, or a list.
NotReturned == [kind |-> "NotReturned", value |-> <<>>]
ReturnedNone == [kind |-> "None", value |-> <<>>]
Raised == [kind |-> "Raised", value |-> <<>>]
Returned(list) == [kind |-> "list", value |-> list]
NoEntryData == [row |-> 0]
\* ses.post raised: there is no answer and no status code.
NoResponse == 0
\* No POST was issued, so the portal was not asked.
NotAsked == [http |-> NoResponse, body |-> "not asked"]
\* No submit operation was called.
NoSubmit ==
    [op |-> "none", answers |-> <<>>, gets |-> <<>>, stop |-> "none",
     pre |-> "none", hidden |-> <<>>, action |-> "none",
     cookies |-> [response |-> "", session |-> ""], table |-> <<>>,
     response |-> NotAsked, posts |-> <<>>, ret |-> "none"]
\* The threads that call get_simaster_session at the same time.
Callers == {1, 2}
\* A thread that has not called get_simaster_session.
NoCaller ==
    [pc |-> "idle", cred |-> <<>>, reuse |-> FALSE, found |-> 0, ses |-> 0,
     login |-> "none", posts |-> 0, ret |-> 0, raised |-> FALSE, calls |-> 0,
     overlapped |-> FALSE, missAtEntry |-> FALSE]
\* A Session without a simasterUGM_cookie.
NoJar == <<>>
\* generate_random_point was not called.
NoPoint == [op |-> "none"]
\* main of the attendance server was not started.
NoScheduler == [pc |-> "none"]
\* main of the menu was not started.
NoMenu == [pc |-> "none"]
\* No operation has used the Session.
NoOperation ==
    [op |-> "none", seq |-> 0, fresh_before |-> "",
     main |-> [status |-> "none", link |-> <<>>],
     page |-> [status |-> "none", set_cookie |-> "", data_url |-> FALSE],
     data |-> [status |-> "none", body |-> "none", csrf_value |-> ""],
     target |-> "none", rpp |-> [status |-> "none", set_cookie |-> ""],
     csrf_value |-> "", requests |-> <<>>, ret |-> NotReturned, stop |-> "none"]
\* No string was put together.
NoGiven ==
    [kind |-> "none", pre |-> <<>>, d1 |-> <<>>, gap |-> <<>>, m1 |-> <<>>,
     t1 |-> <<>>, sep |-> <<>>, d2 |-> <<>>, m2 |-> <<>>, t2 |-> <<>>,
     suf |-> <<>>]

(***************************************************************************)
(* Session manager                                                         *)
(***************************************************************************)
\* timeout=86400 of cache.set
SESSION_TTL == 86400

None == "None"
NoEntry == [ses |-> 0, expires |-> 0]

\* Credentials tried: characters are kept apart so that ':' inside a
\* username or a password is visible to get_cache_key.
Credentials ==
    { <<(<<"a">>), (<<"b">>)>>,
      <<(<<"a", ":">>), (<<"b">>)>>,
      <<(<<"a">>), (<<":", "b">>)>> }

\* md5 is taken as injective on its input: the key is the hashed string
\* f"{username}:{password}".
get_cache_key(username, password) == username \o <<":">> \o password

CacheKeys == { get_cache_key(c[1], c[2]) : c \in Credentials }

\* How far the clock moves between two calls.
Delays == {1, SESSION_TTL - 1}

\* (mutant) cache.get hands out an entry whatever its age
CacheGetNoExpiry(key) == cache[key].ses

\* SimpleCache.get: the stored value while expires > time(), else None (0).
CacheGet(key) ==
    IF cache[key].ses # 0 /\ cache[key].expires > now THEN cache[key].ses ELSE 0

\* (mutant) the login does not store the Session
CacheSetForgets(key, ses) == cache

\* (mutant) the Session is stored under every key
CacheSetEveryKey(key, ses) ==
    [k \in CacheKeys |-> [ses |-> ses, expires |-> now + SESSION_TTL]]

\* SimpleCache.set(key, ses, timeout=86400)
CacheSet(key, ses) ==
    [cache EXCEPT ![key] = [ses |-> ses, expires |-> now + SESSION_TTL]]

\* Outcomes of the validation GET of HOME_URL and of the login POST.
ValidationOutcomes == {"200", "non200", "error"}
\* The login POST is answered with a JSON object that has isLogin == 1
\* ("isLogin"), with a JSON object that has not ("rejected"), with JSON that is
\* no object, such as a list or null ("not_object"), or it fails: request
\* error, HTTP error status, body that is not JSON ("error").
LoginOutcomes == {"isLogin", "rejected", "not_object", "error"}

\* The record of a call: its arguments, what cache.get gave (found, 0 for
\* None), how the home page answers at that moment (home), the number of
\* validation GETs (gets) and login POSTs (posts) the call issued, the answer
\* to its login POST, the Session it returned (0 for None), the time,
\* whether the call before it was a successful login with the same
\* credentials (afterLogin), and whether the cache held an entry for the
\* key that had reached its expiry time (stale).  raised tells that the call
\* ended in an exception instead of returning.  seq flips with every call.
NoCall ==
    [seq |-> 0, cred |-> <<>>, reuse |-> FALSE, found |-> 0, home |-> "none",
     gets |-> 0, posts |-> 0, login |-> "none", ret |-> 0, at |-> 0,
     afterLogin |-> FALSE, stale |-> FALSE, raised |-> FALSE]

\* (mutant) a cached Session is returned whatever the validation GET says
ReusedSessionNoValidation(found, validation) == found

\* Step 1 of get_simaster_session (lines 38-51): the cached Session to
\* return, or 0 to fall through to a new login.
ReusedSession(found, validation) ==
    IF found # 0 /\ validation = "200" THEN found ELSE 0

\* response_json.get("isLogin") == 1 (line 62); a request error or an HTTP
\* error status never gets there.
IsLogin(login) == login = "isLogin"

\* response_json.get(...) of a value that is no dict raises AttributeError,
\* which the except clause of line 70 (RequestException) does not catch.
LoginRaises(login) == login = "not_object"

\* One whole call of get_simaster_session(username, password, reuse_session),
\* with the portal's answers `validation` (GET of the home page) and `login`
\* (POST to LOGIN_URL).
get_simaster_session(username, password, reuse_session, validation, login) ==
    LET key == get_cache_key(username, password)
        found == IF reuse_session THEN CacheGet(key) ELSE 0
        reused == ReusedSession(found, validation)
        ses == sessions + 1
        call == [seq |-> 1 - lastCall.seq, cred |-> <<username, password>>,
                 reuse |-> reuse_session, found |-> found,
                 home |-> validation, gets |-> IF found # 0 THEN 1 ELSE 0,
                 at |-> now,
                 afterLogin |-> /\ lastCall.cred = <<username, password>>
                                /\ lastCall.login = "isLogin",
                 stale |-> /\ cache[key].ses # 0
                           /\ cache[key].expires <= now,
                 raised |-> FALSE]
    IN  /\ IF reused # 0
           THEN /\ lastCall' = call @@ [posts |-> 0, login |-> "none", ret |-> reused]
                /\ UNCHANGED <<cache, sessions>>
           ELSE /\ sessions < MaxSessions
                /\ sessions' = ses
                /\ IF IsLogin(login)
                   THEN /\ cache' = CacheSet(key, ses)
                        /\ lastCall' = call @@ [posts |-> 1, login |-> login, ret |-> ses]
                   ELSE /\ cache' = cache
                        /\ lastCall' = [call @@ [posts |-> 1, login |-> login,
                                                  ret |-> 0]
                                            EXCEPT !.raised = LoginRaises(login)]
        /\ UNCHANGED <<now, ticks>>
        /\ UNCHANGED scrapeVars
        /\ UNCHANGED parseVars
        /\ UNCHANGED submitVars
        /\ UNCHANGED concurrentVars
        /\ UNCHANGED programsVars
        /\ UNCHANGED pointVars
        /\ UNCHANGED schedulerVars
        /\ UNCHANGED menuVars

\* A caller calls get_simaster_session.  The home page is asked only of a
\* call that reuses, the login endpoint only when no Session is reused.
Call ==
    \E c \in Credentials, reuse_session \in BOOLEAN :
        \E validation \in (IF reuse_session THEN ValidationOutcomes ELSE {"none"}) :
            \E login \in (IF ReusedSession(
                                IF reuse_session
                                THEN CacheGet(get_cache_key(c[1], c[2])) ELSE 0,
                                validation) # 0
                          THEN {"none"} ELSE LoginOutcomes) :
                get_simaster_session(c[1], c[2], reuse_session, validation, login)

\* Time passes between two calls.
Tick ==
    /\ ticks < MaxTicks
    /\ \E d \in Delays : now' = now + d
    /\ ticks' = ticks + 1
    /\ UNCHANGED <<cache, sessions, lastCall>>
    /\ UNCHANGED scrapeVars
    /\ UNCHANGED parseVars
    /\ UNCHANGED submitVars
    /\ UNCHANGED concurrentVars
    /\ UNCHANGED programsVars
    /\ UNCHANGED pointVars
    /\ UNCHANGED schedulerVars
    /\ UNCHANGED menuVars

\* The process has started: the cache is empty, no call was made, and no
\* scraper runs.
SessionInit ==
    /\ cache = [k \in CacheKeys |-> NoEntry]
    /\ now = 0 /\ ticks = 0 /\ sessions = 0
    /\ lastCall = NoCall
    /\ op = "none" /\ rows = <<>> /\ pc = "done" /\ i = 0 /\ j = 0
    /\ entries = <<>> /\ entry_data = NoEntryData
    /\ all_sub_attended = FALSE /\ notattendedflag = FALSE
    /\ sub_entry_found = FALSE /\ scans = <<>> /\ result = NotReturned
    /\ container = FALSE
    /\ given = NoGiven /\ datetime_str = <<>> /\ parsed = NotReturned
    /\ submit = NoSubmit
    /\ callers = [c \in Callers |-> NoCaller]
    /\ jar = NoJar /\ programs = NoOperation
    /\ point = NoPoint
    /\ scheduler = NoScheduler /\ menu = NoMenu

SessionNext == Call \/ Tick

SpecSession == SessionInit /\ [][SessionNext]_vars

(***************************************************************************)
(* Two threads in get_simaster_session.  The function takes no lock, so   *)
(* the threads interleave at every call that leaves the function:         *)
(* cache.get (line 39), ses.get (line 44), ses.post (line 58) and         *)
(* cache.set (line 64).                                                   *)
(***************************************************************************)
\* Whether a thread is inside get_simaster_session.
Inside(c) == callers[c].pc \notin {"idle", "done"}

\* A thread calls get_simaster_session(username, password, reuse_session):
\* line 37 computes the key, line 38 decides whether the cache is asked.
\* overlapped tells whether the call ran while another thread was inside the
\* function, missAtEntry whether the cache held no valid entry for the key
\* when the call began (both history only).
Enter(c) ==
    /\ ~Inside(c)
    /\ callers[c].calls < MaxCalls
    /\ \E cred \in Credentials, reuse_session \in BOOLEAN :
        LET others == {o \in Callers \ {c} : Inside(o)}
        IN  callers' =
                [o \in Callers |->
                    IF o = c
                    THEN [NoCaller EXCEPT
                            !.pc = IF reuse_session THEN "get" ELSE "new",
                            !.cred = cred, !.reuse = reuse_session,
                            !.calls = callers[c].calls + 1,
                            !.overlapped = others # {},
                            !.missAtEntry =
                                CacheGet(get_cache_key(cred[1], cred[2])) = 0]
                    ELSE IF o \in others
                    THEN [callers[o] EXCEPT !.overlapped = TRUE]
                    ELSE callers[o]]
    /\ UNCHANGED <<cache, now, ticks, sessions, lastCall>>
    /\ UNCHANGED scrapeVars
    /\ UNCHANGED parseVars
    /\ UNCHANGED submitVars
    /\ UNCHANGED programsVars
    /\ UNCHANGED pointVars
    /\ UNCHANGED schedulerVars
    /\ UNCHANGED menuVars

\* ses = cache.get(key); if ses: ... (lines 39-40)
Lookup(c) ==
    /\ callers[c].pc = "get"
    /\ LET found == CacheGet(get_cache_key(callers[c].cred[1], callers[c].cred[2]))
       IN  callers' = [callers EXCEPT ![c].found = found,
                                      ![c].pc = IF found # 0 THEN "validate"
                                                ELSE "new"]
    /\ UNCHANGED <<cache, now, ticks, sessions, lastCall>>
    /\ UNCHANGED scrapeVars
    /\ UNCHANGED parseVars
    /\ UNCHANGED submitVars
    /\ UNCHANGED programsVars
    /\ UNCHANGED pointVars
    /\ UNCHANGED schedulerVars
    /\ UNCHANGED menuVars

\* The validation GET and what follows from its answer (lines 43-51).
Validate(c) ==
    /\ callers[c].pc = "validate"
    /\ \E validation \in ValidationOutcomes :
        LET reused == ReusedSession(callers[c].found, validation)
        IN  callers' = IF reused # 0
                       THEN [callers EXCEPT ![c].ret = reused, ![c].pc = "done"]
                       ELSE [callers EXCEPT ![c].pc = "new"]
    /\ UNCHANGED <<cache, now, ticks, sessions, lastCall>>
    /\ UNCHANGED scrapeVars
    /\ UNCHANGED parseVars
    /\ UNCHANGED submitVars
    /\ UNCHANGED programsVars
    /\ UNCHANGED pointVars
    /\ UNCHANGED schedulerVars
    /\ UNCHANGED menuVars

\* ses = requests.Session() and the login POST with its answer (lines 55-61).
Login(c) ==
    /\ callers[c].pc = "new"
    /\ \E login \in LoginOutcomes :
        callers' = [callers EXCEPT ![c].ses = sessions + 1,
                                   ![c].login = login,
                                   ![c].posts = 1,
                                   ![c].pc = "answered"]
    /\ sessions' = sessions + 1
    /\ UNCHANGED <<cache, now, ticks, lastCall>>
    /\ UNCHANGED scrapeVars
    /\ UNCHANGED parseVars
    /\ UNCHANGED submitVars
    /\ UNCHANGED programsVars
    /\ UNCHANGED pointVars
    /\ UNCHANGED schedulerVars
    /\ UNCHANGED menuVars

\* Lines 62-72: cache.set and the return of the new Session, or None, or the
\* AttributeError of a body that is no object.
Finish(c) ==
    /\ callers[c].pc = "answered"
    /\ LET key == get_cache_key(callers[c].cred[1], callers[c].cred[2])
       IN  IF IsLogin(callers[c].login)
           THEN /\ cache' = CacheSet(key, callers[c].ses)
                /\ callers' = [callers EXCEPT ![c].ret = callers[c].ses,
                                              ![c].pc = "done"]
           ELSE /\ cache' = cache
                /\ callers' = [callers EXCEPT
                                  ![c].raised = LoginRaises(callers[c].login),
                                  ![c].pc = "done"]
    /\ UNCHANGED <<now, ticks, sessions, lastCall>>
    /\ UNCHANGED scrapeVars
    /\ UNCHANGED parseVars
    /\ UNCHANGED submitVars
    /\ UNCHANGED programsVars
    /\ UNCHANGED pointVars
    /\ UNCHANGED schedulerVars
    /\ UNCHANGED menuVars

\* The process has started; no thread has called yet.
ConcurrentInit ==
    /\ cache = [k \in CacheKeys |-> NoEntry]
    /\ now = 0 /\ ticks = 0 /\ sessions = 0 /\ lastCall = NoCall
    /\ op = "none" /\ rows = <<>> /\ pc = "done" /\ i = 0 /\ j = 0
    /\ entries = <<>> /\ entry_data = NoEntryData
    /\ all_sub_attended = FALSE /\ notattendedflag = FALSE
    /\ sub_entry_found = FALSE /\ scans = <<>> /\ result = NotReturned
    /\ container = FALSE
    /\ given = NoGiven /\ datetime_str = <<>> /\ parsed = NotReturned
    /\ submit = NoSubmit
    /\ callers = [c \in Callers |-> NoCaller]
    /\ jar = NoJar /\ programs = NoOperation
    /\ point = NoPoint
    /\ scheduler = NoScheduler /\ menu = NoMenu

ConcurrentNext ==
    \E c \in Callers : Enter(c) \/ Lookup(c) \/ Validate(c) \/ Login(c) \/ Finish(c)

SpecConcurrent == ConcurrentInit /\ [][ConcurrentNext]_vars

(***************************************************************************)
(* Text: what str.strip, str.split/join, `in` and int() do                 *)
(***************************************************************************)
WS == {" ", "\n"}

RECURSIVE LStrip(_)
LStrip(s) ==
    IF s = <<>> THEN s
    ELSE IF Head(s) \in WS THEN LStrip(Tail(s)) ELSE s

RECURSIVE RStrip(_)
RStrip(s) ==
    IF s = <<>> THEN s
    ELSE IF s[Len(s)] \in WS THEN RStrip(SubSeq(s, 1, Len(s) - 1)) ELSE s

\* str.strip()
strip(s) == RStrip(LStrip(s))

\* On text without leading whitespace: every run of whitespace becomes " ".
RECURSIVE Squeeze(_)
Squeeze(s) ==
    IF s = <<>> THEN <<>>
    ELSE IF Head(s) \in WS THEN <<" ">> \o Squeeze(LStrip(s))
    ELSE <<Head(s)>> \o Squeeze(Tail(s))

\* ' '.join(s.split())
join_split(s) == Squeeze(strip(s))

\* needle in s
Contains(s, needle) ==
    \E k \in 1..(Len(s) - Len(needle) + 1) :
        SubSeq(s, k, k + Len(needle) - 1) = needle

\* The literal "Sudah Presensi"
SUDAH_PRESENSI == <<"Sudah", " ", "Presensi">>

\* int(): the tokens it accepts, with their values; any other text raises
\* ValueError.
IntValue == ("1" :> 1) @@ ("7" :> 7)
IsInt(s) == Len(strip(s)) = 1 /\ strip(s)[1] \in DOMAIN IntValue
int(s) == IntValue[strip(s)[1]]

\* Tokens that start with \d{2}:\d{2}
TimeTokens == {"13:00"}

Min(S) == CHOOSE x \in S : \A y \in S : x <= y

\* The first index after a that holds no whitespace (Len(s) + 1 if none).
WsEnd(s, a) ==
    Min({o \in (a + 1)..(Len(s) + 1) : o = Len(s) + 1 \/ s[o] \notin WS})

NoNewline(s, from, to) == \A k \in from..to : s[k] # "\n"

\* sub_entry_pattern of get_logbook_entries_by_id (lines 360-365), searched
\* in s:  ^(?P<title>.*?)\s+\((?P<datetime_str>.*? \d{2}:\d{2}.*?)\)\s+\[(?P<duration>.*?)\]
\* The lazy groups take the first feasible end.
LogbookPattern(s) ==
    LET n == Len(s)
        RSet(b) == {r \in (b + 1)..n : s[r] = "]" /\ NoNewline(s, b + 1, r - 1)}
        AfterQ(q) ==
            /\ q + 1 <= n /\ s[q + 1] \in WS
            /\ WsEnd(s, q) <= n /\ s[WsEnd(s, q)] = "["
            /\ RSet(WsEnd(s, q)) # {}
        QSet(o) ==
            {q \in (o + 1)..n :
                /\ s[q] = ")"
                /\ NoNewline(s, o + 1, q - 1)
                /\ \E k \in (o + 1)..(q - 2) : s[k] = " " /\ s[k + 1] \in TimeTokens
                /\ AfterQ(q)}
        ASet ==
            {a \in 0..(n - 1) :
                /\ s[a + 1] \in WS
                /\ NoNewline(s, 1, a)
                /\ WsEnd(s, a) <= n /\ s[WsEnd(s, a)] = "("
                /\ QSet(WsEnd(s, a)) # {}}
    IN  IF ASet = {}
        THEN [matched |-> FALSE, title |-> <<>>, datetime_str |-> <<>>,
              duration |-> <<>>]
        ELSE LET a == Min(ASet)
                 o == WsEnd(s, a)
                 q == Min(QSet(o))
                 b == WsEnd(s, q)
                 r == Min(RSet(b))
             IN  [matched |-> TRUE,
                  title |-> SubSeq(s, 1, a),
                  datetime_str |-> SubSeq(s, o + 1, q - 1),
                  duration |-> SubSeq(s, b + 1, r - 1)]

(***************************************************************************)
(* The RPP page's table datatables2 and get_logbook_entries_by_id          *)
(***************************************************************************)
NOT_AVAILABLE == <<"N/A">>

SubText == <<"rapat", " ", "(", "2Juli2025", " ", "13:00", " ", "WIB", ")",
             " ", "[", "3jam", "]">>

\* Rows the portal can put into the table, one of each shape the scraper
\* tells apart.
LogbookMain1 ==
    << <<"1">>, <<"judul">>, <<"tgl">>, <<"lokasi">>, <<"href_logbook_kegiatan">> >>
LogbookMain7 ==
    << <<" ", "7", "\n">>, <<"judul", " ", "lain">>, <<"tgl">>, <<"lokasi">>, <<>> >>
LogbookMainNoNumber ==
    << <<"No">>, <<"judul">>, <<"tgl">>, <<"lokasi">>, <<>> >>
LogbookSubAttended ==
    << <<>>, SubText \o <<"\n", " ", "Sudah", "\n", "Presensi">> >>
LogbookSubOpen ==
    << <<" ">>, SubText \o <<" ", "Presensi">> >>
LogbookSubPlain ==
    << <<>>, <<"\n", "catatan", " ", " ", "bebas">> >>
LogbookLabelled ==
    << <<"x">>, SubText \o <<" ", "Sudah", " ", "Presensi">> >>
LogbookWide ==
    << <<>>, <<"Sudah", " ", "Presensi">>, <<>> >>

LogbookRows ==
    {LogbookMain1, LogbookMain7, LogbookMainNoNumber, LogbookSubAttended,
     LogbookSubOpen, LogbookSubPlain, LogbookLabelled, LogbookWide}

\* re.search(r"href=['\"]([^'\"]*logbook_kegiatan[^'\"]*)['\"]", ...) on the
\* fifth cell
KegiatanUrl(cell) ==
    IF \E k \in 1..Len(cell) : cell[k] = "href_logbook_kegiatan"
    THEN "href_logbook_kegiatan" ELSE None

\* len(cols) == 5
IsMainRow(cols) == Len(cols) = 5

\* (mutant) any row of two cells is taken for a sub-row
IsSubRowAnyFirstCell(sub_cols) == Len(sub_cols) = 2

\* len(sub_cols) == 2 and not sub_cols[0].text_content().strip()
IsSubRow(sub_cols) == Len(sub_cols) = 2 /\ strip(sub_cols[1]) = <<>>

\* (mutant) attended unless a "Presensi" control is left in the row
IsAttendedByMissingControl(full_text) == ~Contains(full_text, <<"Presensi">>)

\* is_attended = "Sudah Presensi" in full_text
IsAttended(full_text) == Contains(full_text, SUDAH_PRESENSI)

\* (mutant) a sub-row that does not match the pattern keeps no title
SubDataNoFallback(full_text, row) ==
    LET match == LogbookPattern(full_text)
    IN  IF match.matched
        THEN [is_attended |-> IsAttended(full_text), title |-> strip(match.title),
              datetime_str |-> strip(match.datetime_str),
              duration |-> strip(match.duration), row |-> row]
        ELSE [is_attended |-> IsAttended(full_text), title |-> <<>>,
              datetime_str |-> NOT_AVAILABLE, duration |-> NOT_AVAILABLE,
              row |-> row]

\* sub_data of one sub-row (lines 353-376); row is the row's index, kept for
\* the record's history only
SubData(full_text, row) ==
    LET match == LogbookPattern(full_text)
    IN  IF match.matched
        THEN [is_attended |-> IsAttended(full_text), title |-> strip(match.title),
              datetime_str |-> strip(match.datetime_str),
              duration |-> strip(match.duration), row |-> row]
        ELSE [is_attended |-> IsAttended(full_text), title |-> full_text,
              datetime_str |-> NOT_AVAILABLE, duration |-> NOT_AVAILABLE,
              row |-> row]

\* all_sub_attended after one more sub-row (lines 355-356)
AllSubAttendedNext(is_attended, flag, all) ==
    IF is_attended /\ flag THEN TRUE ELSE all

\* notattendedflag after one more sub-row (lines 355-358)
NotAttendedFlagNext(is_attended, flag) ==
    IF is_attended /\ flag THEN flag
    ELSE IF ~is_attended THEN FALSE ELSE flag

\* attendance_status (lines 384-387)
AttendanceStatus(found, all) ==
    IF ~found THEN <<"Belum", " ", "Presensi">>
    ELSE IF all THEN SUDAH_PRESENSI ELSE <<"Belum", " ", "Presensi">>

\* (mutant) scanning resumes after the row that ended the run
ResumeAfterBoundary(jj) == jj + 1

\* i = j (line 390)
ResumeAt(jj) == jj

\* One pass of `while i < len(rows)` that examines rows[i] (lines 326-342,
\* 391-392) or leaves the loop (line 394).  int() of a main row's first cell
\* raises ValueError on text that is no number; `except Exception` (lines
\* 399-401) turns that into None.
LogbookOuter ==
    /\ op = "logbook" /\ pc = "outer"
    /\ IF i > Len(rows)
       THEN /\ result' = Returned(entries)
            /\ pc' = "done"
            /\ UNCHANGED <<i, j, entry_data, all_sub_attended, notattendedflag,
                           sub_entry_found, scans>>
       ELSE LET cols == rows[i] IN
            /\ scans' = [scans EXCEPT ![i] = @ + 1]
            /\ IF IsMainRow(cols)
               THEN IF IsInt(cols[1])
                    THEN /\ entry_data' =
                              [entry_index |-> int(cols[1]),
                               kegiatan_url |-> KegiatanUrl(cols[5]),
                               title |-> strip(cols[2]),
                               date |-> strip(cols[3]),
                               location |-> strip(cols[4]),
                               sub_entries |-> <<>>,
                               row |-> i]
                         /\ all_sub_attended' = FALSE
                         /\ notattendedflag' = TRUE
                         /\ sub_entry_found' = FALSE
                         /\ j' = i + 1
                         /\ pc' = "inner"
                         /\ UNCHANGED <<i, result>>
                    ELSE /\ result' = ReturnedNone
                         /\ pc' = "done"
                         /\ UNCHANGED <<i, j, entry_data, all_sub_attended,
                                        notattendedflag, sub_entry_found>>
               ELSE /\ i' = i + 1
                    /\ UNCHANGED <<pc, j, entry_data, all_sub_attended,
                                   notattendedflag, sub_entry_found, result>>
    /\ UNCHANGED <<op, rows, entries>>
    /\ UNCHANGED container
    /\ UNCHANGED sessionVars
    /\ UNCHANGED parseVars
    /\ UNCHANGED submitVars
    /\ UNCHANGED concurrentVars
    /\ UNCHANGED programsVars
    /\ UNCHANGED pointVars
    /\ UNCHANGED schedulerVars
    /\ UNCHANGED menuVars

\* (mutant) the entry is put in front of the list
PrependEntry(list, entry) == <<entry>> \o list

\* entries.append(entry_data) (line 389)
AppendEntry(list, entry) == Append(list, entry)

\* One pass of the look-ahead loop `while j < len(rows)` (lines 349-381), and
\* on leaving it the entry's status and `i = j` (lines 384-390).
LogbookInner ==
    /\ op = "logbook" /\ pc = "inner"
    /\ IF j <= Len(rows) /\ IsSubRow(rows[j])
       THEN LET full_text == join_split(rows[j][2])
                is_attended == IsAttended(full_text)
            IN  /\ all_sub_attended' =
                       AllSubAttendedNext(is_attended, notattendedflag, all_sub_attended)
                /\ notattendedflag' = NotAttendedFlagNext(is_attended, notattendedflag)
                /\ sub_entry_found' = TRUE
                /\ entry_data' = [entry_data EXCEPT !.sub_entries =
                                      Append(@, SubData(full_text, j))]
                /\ j' = j + 1
                /\ UNCHANGED <<pc, i, entries>>
       ELSE /\ entries' = AppendEntry(entries,
                 entry_data @@ [attendance_status |->
                                    AttendanceStatus(sub_entry_found, all_sub_attended)])
            /\ i' = ResumeAt(j)
            /\ pc' = "outer"
            /\ UNCHANGED <<j, entry_data, all_sub_attended, notattendedflag,
                           sub_entry_found>>
    /\ UNCHANGED <<op, rows, scans, result>>
    /\ UNCHANGED container
    /\ UNCHANGED sessionVars
    /\ UNCHANGED parseVars
    /\ UNCHANGED submitVars
    /\ UNCHANGED concurrentVars
    /\ UNCHANGED programsVars
    /\ UNCHANGED pointVars
    /\ UNCHANGED schedulerVars
    /\ UNCHANGED menuVars

(***************************************************************************)
(* The "Program Bantu" panel and get_bantu_pic_entries                     *)
(***************************************************************************)
PicMain1 ==
    << <<"1">>, <<"judul">>, <<"x">>, <<"pic">>, <<"tgl">>, <<"lokasi">> >>
PicMainNoNumber ==
    << <<"No">>, <<"judul">>, <<"x">>, <<"pic">>, <<"tgl">>, <<"lokasi">> >>
PicBlankFirst ==
    << <<" ">>, <<"judul">>, <<"x">>, <<"pic">>, <<"tgl">>, <<"lokasi">> >>
PicSub ==
    << <<>>, <<"\n">> \o SubText \o <<" ", "Presensi">> >>
PicSubAttended ==
    << <<>>, SubText \o <<" ", "Sudah", " ", "Presensi">> >>
PicStatusAttended ==
    << <<>>, <<"Sudah", " ", "Presensi">> >>
PicStatusOpen ==
    << <<"Belum", " ", "Presensi">> >>

PicRows ==
    {PicMain1, PicMainNoNumber, PicBlankFirst, PicSub, PicSubAttended,
     PicStatusAttended, PicStatusOpen}

\* row.text_content(): the text of the row's cells, a line break between two
\* cells
RECURSIVE RowText(_)
RowText(row) ==
    IF row = <<>> THEN <<>>
    ELSE IF Len(row) = 1 THEN row[1]
    ELSE row[1] \o <<"\n">> \o RowText(Tail(row))

\* sub_entry_pattern of get_bantu_pic_entries (lines 456-460), re.DOTALL,
\* searched in s:  ^(?P<title>.*?)\s\((?P<datetime_str>.*?WIB)\)\s\[(?P<duration>.*?)\]
PicPattern(s) ==
    LET n == Len(s)
        QSet(o) ==
            {q \in (o + 2)..(n - 3) :
                /\ s[q] = ")" /\ s[q - 1] = "WIB"
                /\ s[q + 1] \in WS /\ s[q + 2] = "["
                /\ \E r \in (q + 3)..n : s[r] = "]"}
        ASet ==
            {a \in 0..(n - 2) :
                s[a + 1] \in WS /\ s[a + 2] = "(" /\ QSet(a + 2) # {}}
    IN  IF ASet = {}
        THEN [matched |-> FALSE, title |-> <<>>, datetime_str |-> <<>>]
        ELSE LET a == Min(ASet)
                 q == Min(QSet(a + 2))
             IN  [matched |-> TRUE,
                  title |-> SubSeq(s, 1, a),
                  datetime_str |-> SubSeq(s, a + 3, q - 1)]

\* len(cols) == 6 and cols[0].text_content().strip()
IsPicMainRow(cols) == Len(cols) = 6 /\ strip(cols[1]) # <<>>

\* is_attended of the sub-entry row k (lines 468-476): the marker is looked
\* for only when a next row exists
PicIsAttended(table, k) ==
    /\ k + 1 <= Len(table)
    /\ \/ Contains(RowText(table[k + 1]), SUDAH_PRESENSI)
       \/ k + 2 <= Len(table) /\ Contains(RowText(table[k + 2]), SUDAH_PRESENSI)
       \/ Contains(RowText(table[k]), SUDAH_PRESENSI)

\* One pass of `while i < len(rows)` of get_bantu_pic_entries (lines 433-488),
\* the return after it (line 491), or the return for a page without the
\* panel (lines 425-427).  int() of a main row's first cell
\* raises ValueError on text that is no number, which no except clause of the
\* function (lines 493-498) catches.
PicStep ==
    /\ op = "pic" /\ pc = "outer"
    /\ IF ~container
       THEN /\ result' = Returned(<<>>)
            /\ pc' = "done"
            /\ UNCHANGED <<i, entries, scans>>
       ELSE IF i > Len(rows)
       THEN /\ result' = Returned(entries)
            /\ pc' = "done"
            /\ UNCHANGED <<i, entries, scans>>
       ELSE LET cols == rows[i] IN
            /\ scans' = [scans EXCEPT ![i] = @ + 1]
            /\ IF IsPicMainRow(cols)
               THEN IF IsInt(cols[1])
                    THEN /\ entries' = Append(entries,
                                [index |-> int(cols[1]),
                                 title |-> strip(cols[2]),
                                 pic |-> strip(cols[4]),
                                 date |-> strip(cols[5]),
                                 location |-> strip(cols[6]),
                                 sub_entries |-> <<>>,
                                 row |-> i])
                         /\ i' = i + 1
                         /\ UNCHANGED <<pc, result>>
                    ELSE /\ result' = Raised
                         /\ pc' = "done"
                         /\ UNCHANGED <<i, entries>>
               ELSE IF Len(cols) = 2 /\ entries # <<>>
                    THEN LET match == PicPattern(strip(cols[2]))
                             is_attended == PicIsAttended(rows, i)
                         IN  IF match.matched
                             THEN /\ entries' =
                                       [entries EXCEPT ![Len(entries)].sub_entries =
                                           Append(@, [title |-> strip(match.title),
                                                      datetime_str |-> strip(match.datetime_str),
                                                      is_attended |-> is_attended,
                                                      row |-> i])]
                                  /\ i' = IF is_attended THEN i + 2 ELSE i + 1
                                  /\ UNCHANGED <<pc, result>>
                             ELSE /\ i' = i + 1
                                  /\ UNCHANGED <<pc, result, entries>>
                    ELSE /\ i' = i + 1
                         /\ UNCHANGED <<pc, result, entries>>
    /\ UNCHANGED <<op, rows, j, entry_data, all_sub_attended, notattendedflag,
                   sub_entry_found>>
    /\ UNCHANGED container
    /\ UNCHANGED sessionVars
    /\ UNCHANGED parseVars
    /\ UNCHANGED submitVars
    /\ UNCHANGED concurrentVars
    /\ UNCHANGED programsVars
    /\ UNCHANGED pointVars
    /\ UNCHANGED schedulerVars
    /\ UNCHANGED menuVars

Tables(palette) == UNION {[1..n -> palette] : n \in 0..MaxRows}

\* The scraper has fetched and parsed the page.  container tells whether the
\* page holds what the rows are looked for in: table datatables2 (line 321)
\* or the "Program Bantu" panel (line 424).  rows holds the rows found; the
\* xpath of line 321 gives no rows for a page without the table.  The session
\* manager is left alone meanwhile.
ScrapeInit ==
    /\ cache = [k \in CacheKeys |-> NoEntry]
    /\ now = 0 /\ ticks = 0 /\ sessions = 0 /\ lastCall = NoCall
    /\ op \in {"logbook", "pic"}
    /\ container \in BOOLEAN
    /\ rows \in IF ~container THEN {<<>>}
                ELSE IF op = "logbook" THEN Tables(LogbookRows) ELSE Tables(PicRows)
    /\ pc = "outer" /\ i = 1 /\ j = 0
    /\ entries = <<>> /\ entry_data = NoEntryData
    /\ all_sub_attended = FALSE /\ notattendedflag = FALSE
    /\ sub_entry_found = FALSE
    /\ scans = [k \in 1..Len(rows) |-> 0]
    /\ result = NotReturned
    /\ given = NoGiven /\ datetime_str = <<>> /\ parsed = NotReturned
    /\ submit = NoSubmit
    /\ callers = [c \in Callers |-> NoCaller]
    /\ jar = NoJar /\ programs = NoOperation
    /\ point = NoPoint
    /\ scheduler = NoScheduler /\ menu = NoMenu

ScrapeNext == LogbookOuter \/ LogbookInner \/ PicStep

SpecScrape == ScrapeInit /\ [][ScrapeNext]_vars

(***************************************************************************)
(* parse_datetime_range (kkn_utils.py:405-441 and timeline.py:21-52, the   *)
(* same statements in both files).  Here text is a sequence of single      *)
(* characters.                                                             *)
(***************************************************************************)
Digit == {"0", "1", "2", "3", "4", "5", "6", "7", "8", "9"}
DigitValue ==
    ("0" :> 0) @@ ("1" :> 1) @@ ("2" :> 2) @@ ("3" :> 3) @@ ("4" :> 4) @@
    ("5" :> 5) @@ ("6" :> 6) @@ ("7" :> 7) @@ ("8" :> 8) @@ ("9" :> 9)
UpperCase == <<"A", "B", "C", "D", "E", "F", "G", "H", "I", "J", "K", "L", "M",
      "N", "O", "P", "Q", "R", "S", "T", "U", "V", "W", "X", "Y", "Z">>
LowerCase == <<"a", "b", "c", "d", "e", "f", "g", "h", "i", "j", "k", "l", "m",
      "n", "o", "p", "q", "r", "s", "t", "u", "v", "w", "x", "y", "z">>
\* \w of the re module, on the characters of the model
WordChar ==
    Digit \cup {"_"} \cup {UpperCase[n] : n \in 1..26} \cup {LowerCase[n] : n \in 1..26}

\* str.lower()
lower(s) ==
    [k \in 1..Len(s) |->
        IF \E n \in 1..26 : UpperCase[n] = s[k]
        THEN LowerCase[CHOOSE n \in 1..26 : UpperCase[n] = s[k]]
        ELSE s[k]]

\* str.replace("wib", "")
RECURSIVE replace_wib(_)
replace_wib(s) ==
    IF Len(s) < 3 THEN s
    ELSE IF SubSeq(s, 1, 3) = <<"w", "i", "b">>
         THEN replace_wib(SubSeq(s, 4, Len(s)))
         ELSE <<s[1]>> \o replace_wib(Tail(s))

\* int() of a run of digits
RECURSIVE ParseInt(_)
ParseInt(s) ==
    IF s = <<>> THEN 0
    ELSE 10 * ParseInt(SubSeq(s, 1, Len(s) - 1)) + DigitValue[s[Len(s)]]

MONTH_MAP ==
    << <<"j", "a", "n", "u", "a", "r", "i">>,
       <<"f", "e", "b", "r", "u", "a", "r", "i">>,
       <<"m", "a", "r", "e", "t">>,
       <<"a", "p", "r", "i", "l">>,
       <<"m", "e", "i">>,
       <<"j", "u", "n", "i">>,
       <<"j", "u", "l", "i">>,
       <<"a", "g", "u", "s", "t", "u", "s">>,
       <<"s", "e", "p", "t", "e", "m", "b", "e", "r">>,
       <<"o", "k", "t", "o", "b", "e", "r">>,
       <<"n", "o", "v", "e", "m", "b", "e", "r">>,
       <<"d", "e", "s", "e", "m", "b", "e", "r">> >>

\* MONTH_MAP[m_str]; 0 stands for the KeyError of a name that is not a key.
MonthNumber(m_str) ==
    IF \E n \in 1..12 : MONTH_MAP[n] = m_str
    THEN CHOOSE n \in 1..12 : MONTH_MAP[n] = m_str
    ELSE 0

IsLeap(y) == y % 4 = 0 /\ (y % 100 # 0 \/ y % 400 = 0)
DaysInMonth(y, mo) ==
    IF mo = 2 THEN (IF IsLeap(y) THEN 29 ELSE 28)
    ELSE IF mo \in {4, 6, 9, 11} THEN 30 ELSE 31

\* None in place of a datetime
NoDatetime == <<>>

\* datetime(year, month, day, hour, minute): the value, or NoDatetime when
\* the constructor raises ValueError (or MONTH_MAP raised KeyError before).
datetime(y, mo, d, h, mi) ==
    IF /\ y \in 1..9999 /\ mo \in 1..12 /\ d >= 1 /\ d <= DaysInMonth(y, mo)
       /\ h \in 0..23 /\ mi \in 0..59
    THEN <<y, mo, d, h, mi>>
    ELSE NoDatetime

IsWs(s, k) == k \in 1..Len(s) /\ s[k] \in WS
IsDigit(s, k) == k \in 1..Len(s) /\ s[k] \in Digit
IsWordChar(s, k) == k \in 1..Len(s) /\ s[k] \in WordChar

\* (\d{2}:\d{2}) at position k
IsTimeAt(s, k) ==
    /\ IsDigit(s, k) /\ IsDigit(s, k + 1)
    /\ k + 2 <= Len(s) /\ s[k + 2] = ":"
    /\ IsDigit(s, k + 3) /\ IsDigit(s, k + 4)

\* The last index of the run of word characters (of whitespace) that starts
\* at k; k - 1 when there is none.
WordRunEnd(s, k) ==
    Min({o \in (k - 1)..Len(s) : ~IsWordChar(s, o + 1)
                                  /\ \A q \in k..o : IsWordChar(s, q)})
SpaceRunEnd(s, k) ==
    Min({o \in (k - 1)..Len(s) : ~IsWs(s, o + 1) /\ \A q \in k..o : IsWs(s, q)})

NoDateTimeMatch ==
    [ok |-> FALSE, d |-> <<>>, m |-> <<>>, y |-> <<>>, t |-> <<>>, end |-> 0]

\* (\d{1,2})\s(\w+)\s(\d{4})\s(\d{2}:\d{2}) matched at position p.  Each
\* group is followed by a character outside its class, so the groups are
\* fixed by p.
DateTimeAt(s, p) ==
    LET n == IF IsDigit(s, p) /\ IsDigit(s, p + 1) /\ IsWs(s, p + 2) THEN 2
             ELSE IF IsDigit(s, p) /\ IsWs(s, p + 1) THEN 1
             ELSE 0
        ms == p + n + 1
        me == WordRunEnd(s, ms)
        ys == me + 2
        ts == ys + 5
    IN  IF /\ n > 0
           /\ me >= ms /\ IsWs(s, me + 1)
           /\ \A k \in ys..(ys + 3) : IsDigit(s, k)
           /\ IsWs(s, ys + 4)
           /\ IsTimeAt(s, ts)
        THEN [ok |-> TRUE, d |-> SubSeq(s, p, p + n - 1), m |-> SubSeq(s, ms, me),
              y |-> SubSeq(s, ys, ys + 3), t |-> SubSeq(s, ts, ts + 4),
              end |-> ts + 4]
        ELSE NoDateTimeMatch

\* The overnight pattern matched at p: date-time, \s+s\.d\s+, date-time.
OvernightAt(s, p) ==
    LET a == DateTimeAt(s, p)
        se == SpaceRunEnd(s, a.end + 1)
        se2 == SpaceRunEnd(s, se + 4)
    IN  IF /\ a.ok
           /\ se >= a.end + 1
           /\ se + 3 <= Len(s) /\ SubSeq(s, se + 1, se + 3) = <<"s", ".", "d">>
           /\ se2 >= se + 4
        THEN [first |-> a, second |-> DateTimeAt(s, se2 + 1)]
        ELSE [first |-> a, second |-> NoDateTimeMatch]

\* The same-day pattern matched at p: date-time, \s+-\s+, (\d{2}:\d{2}).
\* t2 is the position of the second clock time, 0 without a match.
SamedayAt(s, p) ==
    LET a == DateTimeAt(s, p)
        se == SpaceRunEnd(s, a.end + 1)
        se2 == SpaceRunEnd(s, se + 2)
    IN  IF /\ a.ok
           /\ se >= a.end + 1
           /\ se + 1 <= Len(s) /\ s[se + 1] = "-"
           /\ se2 >= se + 2
           /\ IsTimeAt(s, se2 + 1)
        THEN [first |-> a, t2 |-> SubSeq(s, se2 + 1, se2 + 5)]
        ELSE [first |-> a, t2 |-> <<>>]

\* (mutant) the patterns are tried at the start of the string only
SearchFromStartOnly(s) == {1} \cap (1..Len(s))

\* re.search tries every position, from the left.
SearchPositions(s) == 1..Len(s)

\* datetime(int(y), MONTH_MAP[m_str], int(d), int(t[:2]), int(t[3:]))
MakeDatetime(d, m_str, y, t) ==
    datetime(ParseInt(y), MonthNumber(m_str), ParseInt(d),
             ParseInt(SubSeq(t, 1, 2)), ParseInt(SubSeq(t, 4, 5)))

\* What the try block gives when both datetimes were built, and what the
\* except clause gives when one of them raised.
BothOrNone(start_dt, end_dt) ==
    IF start_dt = NoDatetime \/ end_dt = NoDatetime
    THEN <<NoDatetime, NoDatetime>>
    ELSE <<start_dt, end_dt>>

\* parse_datetime_range(datetime_str), text being the argument; None and ""
\* are both the empty text (`if not datetime_str`).
parse_datetime_range(text) ==
    IF text = <<>> THEN <<NoDatetime, NoDatetime>>
    ELSE
    LET s == strip(replace_wib(lower(text)))
        overnight == {p \in SearchPositions(s) : OvernightAt(s, p).second.ok}
        sameday == {p \in SearchPositions(s) : SamedayAt(s, p).t2 # <<>>}
    IN  IF overnight # {}
        THEN LET mt == OvernightAt(s, Min(overnight))
             IN  BothOrNone(
                    MakeDatetime(mt.first.d, mt.first.m, mt.first.y, mt.first.t),
                    MakeDatetime(mt.second.d, mt.second.m, mt.second.y, mt.second.t))
        ELSE IF sameday # {}
        THEN LET mt == SamedayAt(s, Min(sameday))
             IN  BothOrNone(
                    MakeDatetime(mt.first.d, mt.first.m, mt.first.y, mt.first.t),
                    MakeDatetime(mt.first.d, mt.first.m, mt.first.y, mt.t2))
        ELSE <<NoDatetime, NoDatetime>>

\* The strings handed to the parser are put together from these parts.
DayWords == {<<"2">>, <<"8">>, <<"3", "2">>, <<"1", "1", "2">>}
SecondDayWords == {<<"9">>, <<"3", "0">>}
MonthWords == {<<"J", "u", "l", "i">>, <<"F", "o", "o">>}
SecondMonthWords == {<<"J", "u", "l", "i">>, <<"F", "e", "b", "r", "u", "a", "r", "i">>, <<"F", "o", "o">>}
YearWord == <<"2", "0", "2", "5">>
StartTimes == {<<"1", "3", ":", "0", "0">>, <<"1", "9", ":", "0", "0">>, <<"2", "5", ":", "0", "0">>}
EndTimes == {<<"1", "6", ":", "0", "0">>, <<"0", "0", ":", "0", "0">>, <<"1", "3", ":", "6", "0">>}
Gaps == {<<" ">>, <<" ", " ">>}
Prefixes == {<<>>, <<"x", " ">>}
Suffixes == {<<>>, <<" ", "W", "I", "B">>, <<" ", "x">>}

Givens ==
    { [NoGiven EXCEPT !.kind = "empty"] }
    \cup
    { [kind |-> k, pre |-> pre, d1 |-> d1, gap |-> gap, m1 |-> m1, t1 |-> t1,
       sep |-> sep, d2 |-> <<>>, m2 |-> <<>>, t2 |-> t2, suf |-> suf] :
        k \in {"sameday"}, pre \in Prefixes, d1 \in DayWords, gap \in Gaps,
        m1 \in MonthWords, t1 \in StartTimes, sep \in Gaps, t2 \in EndTimes,
        suf \in Suffixes }
    \cup
    { [kind |-> k, pre |-> pre, d1 |-> d1, gap |-> gap, m1 |-> m1, t1 |-> t1,
       sep |-> sep, d2 |-> d2, m2 |-> m2, t2 |-> t2, suf |-> <<>>] :
        k \in {"overnight"}, pre \in Prefixes, d1 \in DayWords, gap \in Gaps,
        m1 \in MonthWords, t1 \in StartTimes, sep \in Gaps,
        d2 \in SecondDayWords, m2 \in SecondMonthWords, t2 \in EndTimes }
    \cup
    { [NoGiven EXCEPT !.kind = "single", !.d1 = d1, !.gap = <<" ">>,
                      !.m1 = m1, !.t1 = t1, !.suf = suf] :
        d1 \in DayWords, m1 \in MonthWords, t1 \in StartTimes,
        suf \in Suffixes }

\* The text of a given string.
Render(g) ==
    IF g.kind = "empty" \/ g.kind = "none" THEN <<>>
    ELSE LET first == g.pre \o g.d1 \o g.gap \o g.m1 \o <<" ">> \o YearWord
                        \o <<" ">> \o g.t1
         IN  IF g.kind = "sameday"
             THEN first \o g.sep \o <<"-">> \o g.sep \o g.t2 \o g.suf
             ELSE IF g.kind = "overnight"
             THEN first \o g.sep \o <<"s", ".", "d">> \o g.sep \o g.d2 \o <<" ">>
                    \o g.m2 \o <<" ">> \o YearWord \o <<" ">> \o g.t2 \o g.suf
             ELSE first \o g.suf

\* A caller evaluates parse_datetime_range(datetime_str).
Parse ==
    /\ parsed = NotReturned
    /\ parsed' = [kind |-> "pair", value |-> parse_datetime_range(datetime_str)]
    /\ UNCHANGED <<given, datetime_str>>
    /\ UNCHANGED sessionVars
    /\ UNCHANGED scrapeVars
    /\ UNCHANGED submitVars
    /\ UNCHANGED concurrentVars
    /\ UNCHANGED programsVars
    /\ UNCHANGED pointVars
    /\ UNCHANGED schedulerVars
    /\ UNCHANGED menuVars

\* A caller holds a string; nothing else runs.
ParseInit ==
    /\ cache = [k \in CacheKeys |-> NoEntry]
    /\ now = 0 /\ ticks = 0 /\ sessions = 0 /\ lastCall = NoCall
    /\ op = "none" /\ rows = <<>> /\ pc = "done" /\ i = 0 /\ j = 0
    /\ entries = <<>> /\ entry_data = NoEntryData
    /\ all_sub_attended = FALSE /\ notattendedflag = FALSE
    /\ sub_entry_found = FALSE /\ scans = <<>> /\ result = NotReturned
    /\ container = FALSE
    /\ given \in Givens
    /\ datetime_str = Render(given)
    /\ parsed = NotReturned
    /\ submit = NoSubmit
    /\ callers = [c \in Callers |-> NoCaller]
    /\ jar = NoJar /\ programs = NoOperation
    /\ point = NoPoint
    /\ scheduler = NoScheduler /\ menu = NoMenu

ParseNext == Parse

SpecParse == ParseInit /\ [][ParseNext]_vars

(***************************************************************************)
(* Submit operations: post_kkn_presensi (lines 73-131),                    *)
(* add_kkn_logbook_entry (217-270), create_sub_entry_base (500-565) and    *)
(* post_attendance_for_sub_entry (588-685).  Each is one call from start   *)
(* to return; `posts` lists the submitting POSTs the call issued with      *)
(* their url and data (the requests of get_kkn_programs are not listed).   *)
(***************************************************************************)
\* How the steps before the POST went: every page was fetched and held what
\* was looked for ("ok"), something looked for was not there ("missing": the
\* token, the rpp link, the 'Tambah' link, the form, the program), or a GET
\* raised or answered an error status ("error").
PreOutcomes == {"ok", "missing", "error"}

\* Status codes of the answer to the POST.
HttpStatuses == {200, 201, 500}

\* Bodies of the answer: a JSON object with status "success", with another
\* status, without status; JSON that is no object (a list, null); HTML with
\* and without <div class="note note-danger">.
JsonBodies == {"json_success", "json_other", "json_no_status", "json_not_object"}
HtmlBodies == {"html_banner", "html_plain"}
Bodies == JsonBodies \cup HtmlBodies

\* Answers to the POST; NoResponse when ses.post itself raised.
Responses ==
    { [http |-> NoResponse, body |-> "none"] }
    \cup { [http |-> h, body |-> b] : h \in HttpStatuses, b \in Bodies }

\* response.raise_for_status() raises HTTPError for 4xx and 5xx.
RaisesForStatus(http) == http >= 400

\* response.json() followed by .get("status") == "success": the value of the
\* comparison, or the exception raised on the way.
JsonStatus(body) ==
    CASE body = "json_success" -> "True"
      [] body \in {"json_other", "json_no_status"} -> "False"
      [] body = "json_not_object" -> "AttributeError"
      [] OTHER -> "JSONDecodeError"

\* Lines 106-131 of post_kkn_presensi: only RequestException is caught
\* around the call, JSONDecodeError around response.json(); the HTML branch
\* looks for the banner and returns False either way (line 127).
PresensiResult(resp) ==
    IF resp.http = NoResponse \/ RaisesForStatus(resp.http) THEN "False"
    ELSE CASE JsonStatus(resp.body) = "True" -> "True"
           [] JsonStatus(resp.body) = "False" -> "False"
           [] JsonStatus(resp.body) = "JSONDecodeError" -> "False"
           [] OTHER -> "Raised"

\* Lines 255-270 of add_kkn_logbook_entry: response.json() is not guarded by
\* itself; its JSONDecodeError is a RequestException (line 265), anything
\* else is caught at line 268.
AddEntryResult(resp) ==
    IF resp.http = NoResponse \/ RaisesForStatus(resp.http) THEN "False"
    ELSE IF JsonStatus(resp.body) = "True" THEN "True" ELSE "False"

\* Lines 542-565 of create_sub_entry_base: a body that is not JSON counts as
\* success when the status code is 200 (lines 553-556).
SubEntryResult(resp) ==
    IF resp.http = NoResponse \/ RaisesForStatus(resp.http) THEN "False"
    ELSE CASE JsonStatus(resp.body) = "True" -> "True"
           [] JsonStatus(resp.body) = "JSONDecodeError"
                -> (IF resp.http = 200 THEN "True" ELSE "False")
           [] OTHER -> "False"

\* Lines 665-685 of post_attendance_for_sub_entry: every exception ends in
\* the except clause of line 683.
AttendanceResult(resp) ==
    IF resp.http = NoResponse \/ RaisesForStatus(resp.http) THEN "False"
    ELSE IF JsonStatus(resp.body) = "True" THEN "True" ELSE "False"

\* The answers the portal can give to a call: none when no POST goes out.
Answers(posting) == IF posting THEN Responses ELSE {NotAsked}

\* ---- the forms of add_kkn_logbook_entry and create_sub_entry_base ----
HiddenNames == {"simasterUGM_token", "dParam[judul]", "dParam[sumberDana]"}
HiddenValues == {"h1", "h2"}
HiddenInputs == [name : HiddenNames, value : HiddenValues]
Forms == UNION {[1..n -> HiddenInputs] : n \in 0..MaxHidden}

\* form.get("action"): a URL, or None without the attribute (ses.post(None)
\* raises MissingSchema, a RequestException, before anything is sent).
FormActions == {"action_url", None}

Max(S) == CHOOSE x \in S : \A y \in S : x >= y

\* {inp.get("name"): inp.get("value") for inp in hidden_inputs}: of two
\* inputs with one name the later one stays.
HiddenFormData(hidden_inputs) ==
    [n \in {hidden_inputs[k].name : k \in 1..Len(hidden_inputs)} |->
        hidden_inputs[Max({k \in 1..Len(hidden_inputs) :
                            hidden_inputs[k].name = n})].value]

\* (mutant) an assignment does not replace what the form brought
AssignKeepsOld(form_data, fields) ==
    [k \in DOMAIN form_data \cup DOMAIN fields |->
        IF k \in DOMAIN form_data THEN form_data[k] ELSE fields[k]]

\* form_data[key] = value, for every key of fields
Assign(form_data, fields) ==
    [k \in DOMAIN form_data \cup DOMAIN fields |->
        IF k \in DOMAIN fields THEN fields[k] ELSE form_data[k]]

\* Lines 251-253: what add_kkn_logbook_entry writes into form_data.
LogbookEntryFields ==
    ("dParam[judul]" :> "entry_title") @@
    ("dParam[pelaksanaan]" :> "entry_date") @@
    ("dParam[lokasi]" :> "latitude, longitude")

\* Lines 531-540: what create_sub_entry_base writes into form_data.
SubEntryFields ==
    ("dParam[judul]" :> "sub_entry_title") @@
    ("dParam[pelaksanaan]" :> "pelaksanaan_datetime") @@
    ("dParam[durasi]" :> "duration") @@
    ("dParam[deskripsi]" :> "description_text") @@
    ("dParam[sasaran]" :> "sasaran") @@
    ("dParam[jumPeserta]" :> "jumPeserta") @@
    ("dParam[sumberDana]" :> "1") @@
    ("dParam[sumberDanaLain]" :> "") @@
    ("dParam[jumDana]" :> "jumDana") @@
    ("dParam[hasilKegiatan]" :> "hasil_kegiatan_text")

\* Lines 97-103: the data of post_kkn_presensi.
PresensiData ==
    ("simasterUGM_token" :> "token") @@
    ("tanggalPresensi" :> "tanggal_presensi") @@
    ("agreement" :> "1") @@
    ("latitude" :> "latitude") @@
    ("longtitude" :> "longitude")

\* ---- the pages an operation walks through before its POST ----
\* A step fetches a page (get; None when it reads an argument of the call
\* or calls get_kkn_programs) and looks for something in what it got (find;
\* None when nothing is looked for).
Step(get, find) == [get |-> get, find |-> find]
\* Lines 87-93: the page and its simasterUGM_token field.
PresensiSteps == <<Step("presensi_url", "token")>>
\* Lines 224-246: the RPP link of program["action"], the RPP page and its
\* 'Tambah' link, the add page and its form.
AddEntrySteps ==
    <<Step(None, "rpp_link"), Step("rpp_url", "add_link"),
      Step("add_page_url", "form")>>
\* Lines 507-524: the 'Kegiatan' page and its 'Tambah' link, the form page
\* and its form.
SubEntrySteps == <<Step("kegiatan_url", "add_link"), Step("add_form_url", "form")>>
\* Lines 595-607: the program list, the program of the given id, the RPP
\* link of its "action", the RPP page.
AttendanceSteps ==
    <<Step(None, "programs"), Step(None, "program"), Step(None, "rpp_link"),
      Step("rpp_url", None)>>

\* How a step can go: the GET fails ("error": it raises or answers an error
\* status), what is looked for is not there ("absent"), or all is well.
StepAnswers(step) ==
    (IF step.get # None THEN {"error"} ELSE {})
    \cup (IF step.find # None THEN {"absent"} ELSE {})
    \cup {"present"}

\* The answers to the steps of a call; the steps after the one that stops
\* the call are not taken and are listed as "present".
WalkAnswers(steps) ==
    { a \in [1..Len(steps) -> {"error", "absent", "present"}] :
        \A k \in 1..Len(steps) :
            /\ a[k] \in StepAnswers(steps[k])
            /\ (\E m \in 1..(k - 1) : a[m] # "present") => a[k] = "present" }

\* (mutant) a step that does not find its link goes on to the next page
NavigateOn(steps, answers) ==
    LET errors == {k \in 1..Len(steps) : answers[k] = "error"}
        bad == {k \in 1..Len(steps) : answers[k] # "present"}
        last == IF errors = {} THEN Len(steps) ELSE Min(errors)
        fetched == SelectSeq(SubSeq(steps, 1, last), LAMBDA s : s.get # None)
    IN  [answers |-> answers,
         gets |-> [k \in 1..Len(fetched) |-> fetched[k].get],
         stop |-> IF bad = {} THEN "none"
                  ELSE IF answers[Min(bad)] = "error" THEN "request_error"
                  ELSE steps[Min(bad)].find]

\* The walk of a call: the steps are taken in order up to the first that
\* fails; gets lists the URLs fetched, stop tells what ended the walk
\* ("none" when the call gets as far as its token and its POST).
Navigate(steps, answers) ==
    LET bad == {k \in 1..Len(steps) : answers[k] # "present"}
        last == IF bad = {} THEN Len(steps) ELSE Min(bad)
        fetched == SelectSeq(SubSeq(steps, 1, last), LAMBDA s : s.get # None)
    IN  [answers |-> answers,
         gets |-> [k \in 1..Len(fetched) |-> fetched[k].get],
         stop |-> IF bad = {} THEN "none"
                  ELSE IF answers[last] = "error" THEN "request_error"
                  ELSE steps[last].find]

\* The walk in one word: "ok", "error" for a failed GET, "missing" for
\* something that was looked for and not found.
PreOf(walk) ==
    CASE walk.stop = "none" -> "ok"
      [] walk.stop = "request_error" -> "error"
      [] OTHER -> "missing"

\* The record of a call that took the walk.
Walked(operation, walk) ==
    [NoSubmit EXCEPT !.op = operation, !.answers = walk.answers,
                     !.gets = walk.gets, !.stop = walk.stop, !.pre = PreOf(walk)]

PRESENSI_URL == "kkn/presensi/add"
ATTENDANCE_URL == "kkn/kkn/logbook_kegiatan_presensi"

\* post_kkn_presensi(ses, latitude, longitude, tanggal_presensi)
post_kkn_presensi(walk, resp) ==
    LET call == Walked("post_kkn_presensi", walk)
    IN  IF call.pre # "ok" THEN [call EXCEPT !.ret = "False"]
        ELSE [call EXCEPT !.response = resp,
                          !.posts = <<[url |-> PRESENSI_URL, data |-> PresensiData]>>,
                          !.ret = PresensiResult(resp)]

\* The part both form operations share: the hidden inputs, the fields the
\* operation writes, the POST to the action URL.
SubmitForm(call, hidden_inputs, action_url, fields, resp, ret) ==
    IF call.pre # "ok" THEN [call EXCEPT !.ret = "False"]
    ELSE IF action_url = None
    THEN [call EXCEPT !.hidden = hidden_inputs, !.action = action_url,
                      !.ret = "False"]
    ELSE [call EXCEPT !.hidden = hidden_inputs, !.action = action_url,
                      !.response = resp,
                      !.posts = <<[url |-> action_url,
                                   data |-> Assign(HiddenFormData(hidden_inputs),
                                                   fields)]>>,
                      !.ret = ret]

\* add_kkn_logbook_entry(ses, program, entry_title, entry_date, latitude, longitude)
add_kkn_logbook_entry(walk, hidden_inputs, action_url, resp) ==
    SubmitForm(Walked("add_kkn_logbook_entry", walk),
               hidden_inputs, action_url, LogbookEntryFields, resp,
               AddEntryResult(resp))

\* create_sub_entry_base(ses, kegiatan_url, form_details)
create_sub_entry_base(walk, hidden_inputs, action_url, resp) ==
    SubmitForm(Walked("create_sub_entry_base", walk),
               hidden_inputs, action_url, SubEntryFields, resp,
               SubEntryResult(resp))

\* ---- the RPP table of post_attendance_for_sub_entry ----
\* A row is its <td> texts and its <a> elements; an <a> is its text and the
\* parts of its ajaxify URL between the slashes (<<>> without the attribute
\* or with an empty one).
PresensiAjaxify == <<"presensi", "timeline", "jenis", "rpp", "kegiatan", "program">>
OtherAjaxify == <<"presensi", "timeline", "jenis", "rpp", "kegiatan2", "program">>
LongerAjaxify == <<"presensi", "timeline", "jenis", "rpp", "kegiatan3", "program">>
HapusAjaxify == <<"hapus", "timeline", "jenis", "rpp", "kegiatan", "program">>

AttMain1 ==
    [cells |-> << <<"1">>, <<"judul">>, <<"tgl">>, <<"lokasi">>, <<"aksi">> >>,
     anchors |-> <<>>]
AttMain7 ==
    [cells |-> << <<"7">>, <<"judul">>, <<"tgl">>, <<"lokasi">>, <<"aksi">> >>,
     anchors |-> <<>>]
AttMainNoNumber ==
    [cells |-> << <<"No">>, <<"judul">>, <<"tgl">>, <<"lokasi">>, <<"aksi">> >>,
     anchors |-> <<>>]
AttSubOpen ==
    [cells |-> << <<"rapat", " ", "(", "2Juli2025", ")">>, <<"Presensi">> >>,
     anchors |-> <<[text |-> <<"Presensi">>, ajaxify |-> PresensiAjaxify]>>]
AttSubNoAjaxify ==
    [cells |-> << <<"rapat", " ", "(", "2Juli2025", ")">>, <<"Presensi">> >>,
     anchors |-> <<[text |-> <<"Presensi">>, ajaxify |-> <<>>]>>]
AttSubAttended ==
    [cells |-> << <<"rapat", " ", "(", "2Juli2025", ")">>,
                  <<"Sudah", " ", "Presensi", " ", "Hapus">> >>,
     anchors |-> <<[text |-> <<"Hapus">>, ajaxify |-> HapusAjaxify]>>]
AttSubOther ==
    [cells |-> << <<"senam", " ", "(", "3Juli2025", ")">>, <<"Presensi">> >>,
     anchors |-> <<[text |-> <<"Presensi">>, ajaxify |-> OtherAjaxify]>>]
AttSubLonger ==
    [cells |-> << <<"rapat", " ", "besar", " ", "(", "4Juli2025", ")">>, <<"Presensi">> >>,
     anchors |-> <<[text |-> <<"Presensi">>, ajaxify |-> LongerAjaxify]>>]
AttendanceRows ==
    {AttMain1, AttMain7, AttMainNoNumber, AttSubOpen, AttSubNoAjaxify,
     AttSubAttended, AttSubOther, AttSubLonger}

\* The arguments main_entry_index and sub_entry_title_to_find of the calls.
main_entry_index == 1
sub_entry_title_to_find == <<"rapat">>

\* simasterUGM_cookie in the cookies of the RPP response and of the Session
\* ("" when there is none).
CookieJars == [response : {"", "response_token"}, session : {"", "session_token"}]

\* (mutant) the Session's cookie is asked first
PageTokenSessionFirst(cookies) ==
    IF cookies.session # "" THEN cookies.session ELSE cookies.response

\* Lines 609-617: the response's cookie, else the Session's.  A cookie with an
\* empty value counts as none (`if not page_token`).
PageToken(cookies) ==
    IF cookies.response # "" THEN cookies.response ELSE cookies.session

\* (mutant) any <a> of the row is taken for the control
presensi_buttons_any(sub_row) == sub_row.anchors

\* sub_row.xpath(".//a[contains(., 'Presensi')]")
presensi_buttons(sub_row) ==
    SelectSeq(sub_row.anchors, LAMBDA a : Contains(a.text, <<"Presensi">>))

\* Lines 625-681: where the loops stop.  kind tells how: "no_main" (line
\* 680), "ValueError" (int() of a first cell that is no number), "no_sub"
\* (line 677), "no_button" (line 643), "no_ajaxify" (line 648), "IndexError"
\* (fewer than five parts) or "post" with the parts of the URL.
FindPresensi(table) ==
    LET stops == {k \in 1..Len(table) :
                    /\ Len(table[k].cells) = 5
                    /\ \/ ~IsInt(table[k].cells[1])
                       \/ int(table[k].cells[1]) = main_entry_index}
        m == Min(stops)
        brk == Min({o \in (m + 1)..(Len(table) + 1) :
                        o = Len(table) + 1 \/ Len(table[o].cells) # 2})
        hits == {o \in (m + 1)..(brk - 1) :
                    Contains(RowText(table[o].cells), sub_entry_title_to_find)}
        sub_row == table[Min(hits)]
        buttons == presensi_buttons(sub_row)
        found(kind) == [kind |-> kind, row |-> Min(hits), parts |-> <<>>]
    IN  IF stops = {} THEN [kind |-> "no_main", row |-> 0, parts |-> <<>>]
        ELSE IF ~IsInt(table[m].cells[1])
        THEN [kind |-> "ValueError", row |-> 0, parts |-> <<>>]
        ELSE IF hits = {} THEN [kind |-> "no_sub", row |-> 0, parts |-> <<>>]
        ELSE IF buttons = <<>> THEN found("no_button")
        ELSE IF buttons[1].ajaxify = <<>> THEN found("no_ajaxify")
        ELSE IF Len(buttons[1].ajaxify) < 5 THEN found("IndexError")
        ELSE [kind |-> "post", row |-> Min(hits), parts |-> buttons[1].ajaxify]

\* Lines 652-662
AttendancePayload(url_parts, page_token) ==
    LET n == Len(url_parts)
    IN  ("timelineId" :> url_parts[n - 4]) @@
        ("rppJenisProgram" :> url_parts[n - 3]) @@
        ("rppMhsId" :> url_parts[n - 2]) @@
        ("kegiatanMhsId" :> url_parts[n - 1]) @@
        ("programMhsId" :> url_parts[n]) @@
        ("agreement" :> "1") @@
        ("latitude" :> "latitude") @@
        ("longtitude" :> "longitude") @@
        ("simasterUGM_token" :> page_token)

\* Whether the call gets as far as its POST.
AttendancePosts(walk, cookies, table) ==
    /\ PreOf(walk) = "ok" /\ PageToken(cookies) # ""
    /\ FindPresensi(table).kind = "post"

\* post_attendance_for_sub_entry(ses, program_mhs_id, main_entry_index,
\*                               sub_entry_title_to_find, latitude, longitude)
post_attendance_for_sub_entry(walk, cookies, table, resp) ==
    LET call == Walked("post_attendance_for_sub_entry", walk)
        seen == [call EXCEPT !.cookies = cookies]
        scanned == [seen EXCEPT !.table = table]
    IN  IF call.pre # "ok" THEN [call EXCEPT !.ret = "False"]
        ELSE IF PageToken(cookies) = ""
        THEN [seen EXCEPT !.stop = "token", !.ret = "False"]
        ELSE IF FindPresensi(table).kind # "post"
        THEN [scanned EXCEPT !.ret = "False"]
        ELSE [scanned EXCEPT
                !.response = resp,
                !.posts = <<[url |-> ATTENDANCE_URL,
                             data |-> AttendancePayload(FindPresensi(table).parts,
                                                        PageToken(cookies))]>>,
                !.ret = AttendanceResult(resp)]

\* ---- one call of each operation ----
PostPresensi ==
    /\ submit = NoSubmit
    /\ \E answers \in WalkAnswers(PresensiSteps) :
        LET walk == Navigate(PresensiSteps, answers)
        IN  \E resp \in Answers(PreOf(walk) = "ok") :
                submit' = post_kkn_presensi(walk, resp)
    /\ UNCHANGED sessionVars
    /\ UNCHANGED scrapeVars
    /\ UNCHANGED parseVars
    /\ UNCHANGED concurrentVars
    /\ UNCHANGED programsVars
    /\ UNCHANGED pointVars
    /\ UNCHANGED schedulerVars
    /\ UNCHANGED menuVars

AddLogbookEntry ==
    /\ submit = NoSubmit
    /\ \E answers \in WalkAnswers(AddEntrySteps) :
        LET walk == Navigate(AddEntrySteps, answers)
        IN  \E hidden_inputs \in (IF PreOf(walk) = "ok" THEN Forms ELSE {<<>>}),
               action_url \in (IF PreOf(walk) = "ok" THEN FormActions ELSE {None}) :
                \E resp \in Answers(PreOf(walk) = "ok" /\ action_url # None) :
                    submit' = add_kkn_logbook_entry(walk, hidden_inputs,
                                                    action_url, resp)
    /\ UNCHANGED sessionVars
    /\ UNCHANGED scrapeVars
    /\ UNCHANGED parseVars
    /\ UNCHANGED concurrentVars
    /\ UNCHANGED programsVars
    /\ UNCHANGED pointVars
    /\ UNCHANGED schedulerVars
    /\ UNCHANGED menuVars

CreateSubEntry ==
    /\ submit = NoSubmit
    /\ \E answers \in WalkAnswers(SubEntrySteps) :
        LET walk == Navigate(SubEntrySteps, answers)
        IN  \E hidden_inputs \in (IF PreOf(walk) = "ok" THEN Forms ELSE {<<>>}),
               action_url \in (IF PreOf(walk) = "ok" THEN FormActions ELSE {None}) :
                \E resp \in Answers(PreOf(walk) = "ok" /\ action_url # None) :
                    submit' = create_sub_entry_base(walk, hidden_inputs,
                                                    action_url, resp)
    /\ UNCHANGED sessionVars
    /\ UNCHANGED scrapeVars
    /\ UNCHANGED parseVars
    /\ UNCHANGED concurrentVars
    /\ UNCHANGED programsVars
    /\ UNCHANGED pointVars
    /\ UNCHANGED schedulerVars
    /\ UNCHANGED menuVars

PostAttendance ==
    /\ submit = NoSubmit
    /\ \E answers \in WalkAnswers(AttendanceSteps) :
        LET walk == Navigate(AttendanceSteps, answers)
        IN  \E cookies \in (IF PreOf(walk) = "ok" THEN CookieJars
                             ELSE {NoSubmit.cookies}),
               table \in (IF PreOf(walk) = "ok" THEN Tables(AttendanceRows)
                           ELSE {<<>>}) :
                \E resp \in Answers(AttendancePosts(walk, cookies, table)) :
                    submit' = post_attendance_for_sub_entry(walk, cookies,
                                                            table, resp)
    /\ UNCHANGED sessionVars
    /\ UNCHANGED scrapeVars
    /\ UNCHANGED parseVars
    /\ UNCHANGED concurrentVars
    /\ UNCHANGED programsVars
    /\ UNCHANGED pointVars
    /\ UNCHANGED schedulerVars
    /\ UNCHANGED menuVars

\* No operation has been called; nothing else runs.
SubmitInit ==
    /\ cache = [k \in CacheKeys |-> NoEntry]
    /\ now = 0 /\ ticks = 0 /\ sessions = 0 /\ lastCall = NoCall
    /\ op = "none" /\ rows = <<>> /\ pc = "done" /\ i = 0 /\ j = 0
    /\ entries = <<>> /\ entry_data = NoEntryData
    /\ all_sub_attended = FALSE /\ notattendedflag = FALSE
    /\ sub_entry_found = FALSE /\ scans = <<>> /\ result = NotReturned
    /\ container = FALSE
    /\ given = NoGiven /\ datetime_str = <<>> /\ parsed = NotReturned
    /\ submit = NoSubmit
    /\ callers = [c \in Callers |-> NoCaller]
    /\ jar = NoJar /\ programs = NoOperation
    /\ point = NoPoint
    /\ scheduler = NoScheduler /\ menu = NoMenu

SubmitNext == PostPresensi \/ AddLogbookEntry \/ CreateSubEntry \/ PostAttendance

SpecSubmit == SubmitInit /\ [][SubmitNext]_vars

(***************************************************************************)
(* get_kkn_programs (lines 133-214) and the token the Session carries from *)
(* one operation to the next.  A URL is a sequence of characters.          *)
(***************************************************************************)
\* BASE_URL = "https://simaster.ugm.ac.id" (line 17)
BASE_URL ==
    <<"h", "t", "t", "p", "s", ":", "/", "/", "s", "i", "m", "a", "s", "t",
    "e", "r", ".", "u", "g", "m", ".", "a", "c", ".", "i", "d">>
\* kkn_main_url = f"{BASE_URL}/kkn/kkn/" (line 140)
KKN_MAIN_URL == BASE_URL \o <<"/", "k", "k", "n", "/", "k", "k", "n", "/">>
\* The URL the pattern of line 171 captures: the pattern makes it absolute.
DATA_PATH ==
    <<"/", "k", "k", "n", "/", "k", "k", "n", "/", "l", "o", "g", "b", "o",
    "o", "k", "_", "p", "r", "o", "g", "r", "a", "m", "_", "d", "a", "t",
    "a", "/", "x">>
DATA_URL == BASE_URL \o DATA_PATH
\* The href of the target program's "action" (lines 311-316, 601-604).
RPP_PATH ==
    <<"/", "k", "k", "n", "/", "k", "k", "n", "/", "l", "o", "g", "b", "o",
    "o", "k", "_", "p", "r", "o", "g", "r", "a", "m", "_", "r", "p", "p",
    "/", "x">>
RPP_URL == BASE_URL \o RPP_PATH

\* The pattern of lines 144-148 found no link.
NoLink == <<>>
\* What group(1) of the pattern can hold: an absolute URL, a path with and
\* without a leading slash, and a path that begins with the letters "http".
BareLink ==
    <<"k", "k", "n", "/", "l", "o", "g", "b", "o", "o", "k", "_", "p", "r",
    "o", "g", "r", "a", "m">>
SlashLink == <<"/">> \o BareLink
AbsoluteLink == BASE_URL \o SlashLink
HttpdocsLink ==
    <<"h", "t", "t", "p", "d", "o", "c", "s", "/", "l", "o", "g", "b", "o",
    "o", "k", "_", "p", "r", "o", "g", "r", "a", "m">>
Links == {AbsoluteLink, SlashLink, BareLink, HttpdocsLink}

\* logbook_page_url.startswith("http")
StartsWithHttp(url) == Len(url) >= 4 /\ SubSeq(url, 1, 4) = <<"h", "t", "t", "p">>

\* logbook_page_url.lstrip('/')
LStripSlash(url) ==
    LET first == Min({k \in 1..(Len(url) + 1) : k = Len(url) + 1 \/ url[k] # "/"})
    IN  SubSeq(url, first, Len(url))

\* Lines 153-154: f"{BASE_URL}{logbook_page_url.lstrip('/')}" unless the URL
\* starts with "http".
Resolve(url) ==
    IF StartsWithHttp(url) THEN url ELSE BASE_URL \o LStripSlash(url)

\* The host a URL names: what stands between "https://" and the next slash
\* (<<>> for a URL without that scheme).
HostOf(url) ==
    LET scheme == <<"h", "t", "t", "p", "s", ":", "/", "/">>
        stop == Min({k \in 9..(Len(url) + 1) : k = Len(url) + 1 \/ url[k] = "/"})
    IN  IF Len(url) >= 8 /\ SubSeq(url, 1, 8) = scheme
        THEN SubSeq(url, 9, stop - 1) ELSE <<>>

\* Whether a GET of the URL reaches the portal: ses.get raises MissingSchema
\* without a scheme and ConnectionError for a host that does not exist.
Fetchable(url) == HostOf(url) = SubSeq(BASE_URL, 9, Len(BASE_URL))

\* ---- the cookies of the Session ----
\* ses.cookies keeps one cookie per (domain, path, name) and iterates over
\* the domains in the order in which they first got a cookie.  jar lists the
\* domains with the value of their simasterUGM_cookie ("" when the domain
\* has other cookies only).
PORTAL_DOMAIN == "simaster.ugm.ac.id"
\* create_cookie(name, value) of ses.cookies.set gives the cookie no domain
UNSET_DOMAIN == ""

SetCookie(cookies, domain, value) ==
    IF \E k \in 1..Len(cookies) : cookies[k].domain = domain
    THEN [k \in 1..Len(cookies) |->
            IF cookies[k].domain = domain
            THEN [domain |-> domain, value |-> value] ELSE cookies[k]]
    ELSE Append(cookies, [domain |-> domain, value |-> value])

\* The Session takes over the cookies a response sets ("" sets none).
Received(cookies, set_cookie) ==
    IF set_cookie = "" THEN cookies
    ELSE SetCookie(cookies, PORTAL_DOMAIN, set_cookie)

\* Lines 161-164 and 615-617: the value of the last cookie named
\* simasterUGM_cookie, "" for None.
SessionToken(cookies) ==
    LET named == {k \in 1..Len(cookies) : cookies[k].value # ""}
    IN  IF named = {} THEN "" ELSE cookies[Max(named)].value

\* Lines 198-200: if new_token: ses.cookies.set('simasterUGM_cookie', new_token)
UpdateToken(cookies, new_token) ==
    IF new_token # "" THEN SetCookie(cookies, UNSET_DOMAIN, new_token) ELSE cookies

\* ---- what the portal answers ----
ServerCookies == {"", "s1"}
CsrfValues == {"", "c1", "c2"}
\* The main page: the GET fails (request error or error status), or the page
\* arrives with or without the 'Pelaksanaan Program' link.
MainPages ==
    { [status |-> "error", link |-> NoLink] }
    \cup { [status |-> "ok", link |-> l] : l \in Links \cup {NoLink} }
\* The logbook page: whether it sets the cookie and whether its JavaScript
\* holds the data URL.
ErrorPage == [status |-> "error", set_cookie |-> "", data_url |-> FALSE]
LogbookPages ==
    { ErrorPage }
    \cup { [status |-> "ok", set_cookie |-> c, data_url |-> d] :
                c \in ServerCookies, d \in BOOLEAN }
\* The answer to the data POST: bodies that are no JSON, JSON that is no
\* object, an object without "data", with an empty and with a filled list.
DataBodies == {"not_json", "not_object", "no_data", "empty", "one"}
NoData == [status |-> "error", body |-> "none", csrf_value |-> ""]
DataAnswers ==
    { NoData }
    \cup { [status |-> "ok", body |-> b, csrf_value |-> ""] :
                b \in {"not_json", "not_object"} }
    \cup { [status |-> "ok", body |-> b, csrf_value |-> ""] :
                b \in {"no_data", "empty"} }
    \cup { [status |-> "ok", body |-> "one", csrf_value |-> v] : v \in CsrfValues }

\* programs_data.get("data", []) (line 202)
ProgramsOf(body) ==
    CASE body = "one" -> Returned(<<"program">>)
      [] OTHER -> Returned(<<>>)

Request(method, url, token) == [method |-> method, url |-> url, token |-> token]

\* get_kkn_programs(ses) with the Session's cookies and the three answers of
\* the portal: the requests it issues, the cookies it leaves, what it
\* returns, and where it stopped.
get_kkn_programs(cookies, main, page, data) ==
    LET main_req == Request("GET", KKN_MAIN_URL, "")
        logbook_page_url == Resolve(main.link)
        page_req == Request("GET", logbook_page_url, "")
        visited == Received(cookies, page.set_cookie)
        token == SessionToken(visited)
        data_req == Request("POST", DATA_URL, token)
        out(requests, left, ret, stop) ==
            [requests |-> requests, cookies |-> left, ret |-> ret, stop |-> stop]
    IN  IF main.status = "error"
        THEN out(<<main_req>>, cookies, ReturnedNone, "request_error")
        ELSE IF main.link = NoLink
        THEN out(<<main_req>>, cookies, ReturnedNone, "no_link")
        ELSE IF page.status = "error"
        THEN out(<<main_req, page_req>>, cookies, ReturnedNone, "request_error")
        ELSE IF token = ""
        THEN out(<<main_req, page_req>>, visited, ReturnedNone, "no_token")
        ELSE IF ~page.data_url
        THEN out(<<main_req, page_req>>, visited, ReturnedNone, "no_data_url")
        ELSE IF data.status = "error"
        THEN out(<<main_req, page_req, data_req>>, visited, ReturnedNone,
                 "request_error")
        ELSE IF data.body = "not_json"
        THEN out(<<main_req, page_req, data_req>>, visited, ReturnedNone,
                 "JSONDecodeError")
        ELSE IF data.body = "not_object"
        THEN out(<<main_req, page_req, data_req>>, visited, ReturnedNone,
                 "AttributeError")
        ELSE out(<<main_req, page_req, data_req>>,
                 UpdateToken(visited, data.csrf_value),
                 ProgramsOf(data.body), "returned")

\* ---- post_attendance_for_sub_entry with the Session it is given ----
\* The program list row of the wanted program_mhs_id: its "action" holds the
\* RPP link, or does not, or no row has the id.
Targets == {"with_link", "without_link", "other_id"}
\* The RPP page: the GET fails, or the page arrives and sets the cookie or not.
RppPages ==
    { [status |-> "error", set_cookie |-> ""] }
    \cup { [status |-> "ok", set_cookie |-> c] : c \in ServerCookies }
RppTables == { <<AttMain1, AttSubOpen>> }
\* The answers to the attendance POST that are told apart here, and the
\* csrf_value a JSON object among them may carry.
PostAnswers ==
    { [http |-> NoResponse, body |-> "none"],
      [http |-> 200, body |-> "json_success"] }
CsrfOf(resp) ==
    IF resp.body \in {"json_success", "json_other"} THEN {"", "c2"} ELSE {""}

\* `if not programs` (line 596): None and the empty list end the call.
ListedSome(listed) == listed.ret.kind = "list" /\ listed.ret.value # <<>>

\* Whether line 606 is reached: the GET of the RPP page.
FetchesRpp(listed, target) == ListedSome(listed) /\ target = "with_link"

\* Lines 595-607: the answers to the steps of the call.
AttendanceWalk(listed, target, rpp) ==
    Navigate(AttendanceSteps,
        IF ~ListedSome(listed) THEN <<"absent", "present", "present", "present">>
        ELSE IF target = "other_id" THEN <<"present", "absent", "present", "present">>
        ELSE IF target = "without_link"
        THEN <<"present", "present", "absent", "present">>
        ELSE IF rpp.status = "error" THEN <<"present", "present", "present", "error">>
        ELSE <<"present", "present", "present", "present">>)

\* The csrf_value of the last answer that carried one, in the operation the
\* record tells of or before it ("" when no answer carried one).
LastFresh(operation) ==
    IF operation.csrf_value # "" THEN operation.csrf_value
    ELSE IF operation.data.csrf_value # "" THEN operation.data.csrf_value
    ELSE operation.fresh_before

\* The record of the operation that begins now.
Begun(operation) ==
    [NoOperation EXCEPT !.op = operation, !.seq = programs.seq + 1,
                        !.fresh_before = LastFresh(programs)]

\* The answers that tell calls apart: the data POST has an answer only when
\* the call reaches it (line 193), and the entry sought matters only when
\* the list has entries (line 598).
DataPalette(cookies, main, page) ==
    IF Len(get_kkn_programs(cookies, main, page, NoData).requests) = 3
    THEN DataAnswers ELSE {NoData}
TargetPalette(listed) == IF ListedSome(listed) THEN Targets ELSE {"with_link"}

\* One call of get_kkn_programs(ses).  A GET of a URL that does not reach
\* the portal fails.
GetPrograms ==
    /\ programs.seq < MaxOperations
    /\ \E main \in MainPages :
        \E page \in (IF main.link # NoLink /\ Fetchable(Resolve(main.link))
                     THEN LogbookPages ELSE {ErrorPage}) :
            \E data \in DataPalette(jar, main, page) :
                LET call == get_kkn_programs(jar, main, page, data)
                IN  /\ jar' = call.cookies
                    /\ programs' =
                        [Begun("get_kkn_programs") EXCEPT
                            !.main = main, !.page = page, !.data = data,
                            !.requests = call.requests,
                            !.ret = call.ret, !.stop = call.stop]
    /\ UNCHANGED sessionVars
    /\ UNCHANGED scrapeVars
    /\ UNCHANGED parseVars
    /\ UNCHANGED submitVars
    /\ UNCHANGED concurrentVars
    /\ UNCHANGED pointVars
    /\ UNCHANGED schedulerVars
    /\ UNCHANGED menuVars

\* One call of post_attendance_for_sub_entry(ses, ...): get_kkn_programs
\* (line 595), the GET of the RPP page (line 606), the token (lines 609-620),
\* the table and the POST (lines 622-674).  The answer's csrf_value is not
\* read.
Attendance ==
    /\ programs.seq < MaxOperations
    /\ \E main \in MainPages :
        \E page \in (IF main.link # NoLink /\ Fetchable(Resolve(main.link))
                     THEN LogbookPages ELSE {ErrorPage}) :
            \E data \in DataPalette(jar, main, page) :
              \E target \in TargetPalette(get_kkn_programs(jar, main, page, data)) :
                LET listed == get_kkn_programs(jar, main, page, data)
                IN  \E rpp \in (IF FetchesRpp(listed, target) THEN RppPages
                                   ELSE {[status |-> "none", set_cookie |-> ""]}) :
                        LET walk == AttendanceWalk(listed, target, rpp)
                            left == Received(listed.cookies, rpp.set_cookie)
                            cookies == [response |-> rpp.set_cookie,
                                        session |-> SessionToken(left)]
                        IN  \E table \in (IF PreOf(walk) = "ok" /\ PageToken(cookies) # ""
                                          THEN RppTables ELSE {<<>>}) :
                              \E resp \in (IF AttendancePosts(walk, cookies, table)
                                           THEN PostAnswers ELSE {NotAsked}) :
                                \E csrf_value \in CsrfOf(resp) :
                                  LET call == post_attendance_for_sub_entry(
                                                  walk, cookies, table, resp)
                                  IN  /\ submit' = call
                                      /\ jar' = left
                                      /\ programs' =
                                          [Begun("post_attendance_for_sub_entry") EXCEPT
                                            !.main = main, !.page = page,
                                            !.data = data, !.target = target,
                                            !.rpp = rpp,
                                            !.csrf_value = csrf_value,
                                            !.requests =
                                                listed.requests
                                                \o (IF FetchesRpp(listed, target)
                                                    THEN <<Request("GET", RPP_URL, "")>>
                                                    ELSE <<>>)
                                                \o [k \in 1..Len(call.posts) |->
                                                      Request("POST", BASE_URL,
                                                        call.posts[k].data["simasterUGM_token"])],
                                            !.ret = listed.ret,
                                            !.stop = listed.stop]
    /\ UNCHANGED sessionVars
    /\ UNCHANGED scrapeVars
    /\ UNCHANGED parseVars
    /\ UNCHANGED concurrentVars
    /\ UNCHANGED pointVars
    /\ UNCHANGED schedulerVars
    /\ UNCHANGED menuVars

\* One call of post_kkn_presensi, add_kkn_logbook_entry or
\* create_sub_entry_base with the Session.  None of them reads the Session's
\* simasterUGM_cookie or the csrf_value of an answer (lines 90, 249, 528:
\* their token comes from the page); the form here has no hidden inputs.
SubmitSteps(operation) ==
    CASE operation = "post_kkn_presensi" -> PresensiSteps
      [] operation = "add_kkn_logbook_entry" -> AddEntrySteps
      [] operation = "create_sub_entry_base" -> SubEntrySteps

Submits ==
    /\ programs.seq < MaxOperations
    /\ \E operation \in {"post_kkn_presensi", "add_kkn_logbook_entry",
                         "create_sub_entry_base"} :
        \E answers \in WalkAnswers(SubmitSteps(operation)) :
            LET walk == Navigate(SubmitSteps(operation), answers)
            IN  \E resp \in (IF PreOf(walk) = "ok" THEN PostAnswers ELSE {NotAsked}) :
                    \E csrf_value \in CsrfOf(resp) :
                        /\ submit' =
                            CASE operation = "post_kkn_presensi" ->
                                    post_kkn_presensi(walk, resp)
                              [] operation = "add_kkn_logbook_entry" ->
                                    add_kkn_logbook_entry(walk, <<>>, "action_url", resp)
                              [] operation = "create_sub_entry_base" ->
                                    create_sub_entry_base(walk, <<>>, "action_url", resp)
                        /\ programs' = [Begun(operation) EXCEPT
                                            !.csrf_value = csrf_value]
    /\ UNCHANGED jar
    /\ UNCHANGED sessionVars
    /\ UNCHANGED scrapeVars
    /\ UNCHANGED parseVars
    /\ UNCHANGED concurrentVars
    /\ UNCHANGED pointVars
    /\ UNCHANGED schedulerVars
    /\ UNCHANGED menuVars

\* A caller holds a Session: its cookies hold a simasterUGM_cookie of the
\* portal or none.
ProgramsInit ==
    /\ cache = [k \in CacheKeys |-> NoEntry]
    /\ now = 0 /\ ticks = 0 /\ sessions = 0 /\ lastCall = NoCall
    /\ op = "none" /\ rows = <<>> /\ pc = "done" /\ i = 0 /\ j = 0
    /\ entries = <<>> /\ entry_data = NoEntryData
    /\ all_sub_attended = FALSE /\ notattendedflag = FALSE
    /\ sub_entry_found = FALSE /\ scans = <<>> /\ result = NotReturned
    /\ container = FALSE
    /\ given = NoGiven /\ datetime_str = <<>> /\ parsed = NotReturned
    /\ submit = NoSubmit
    /\ callers = [c \in Callers |-> NoCaller]
    /\ jar \in { <<>>, <<[domain |-> PORTAL_DOMAIN, value |-> "s0"]>> }
    /\ programs = NoOperation
    /\ point = NoPoint
    /\ scheduler = NoScheduler /\ menu = NoMenu

ProgramsNext == GetPrograms \/ Attendance \/ Submits

SpecPrograms == ProgramsInit /\ [][ProgramsNext]_vars

(***************************************************************************)
(* generate_random_point (src/src/utils.py, lines 6-45) in exact           *)
(* arithmetic.  A number is a fraction n/d in lowest terms with d > 0.  An *)
(* angle is given by its sine and its cosine.  math.degrees multiplies by  *)
(* 180/pi: a coordinate is kept as a number of degrees (deg) plus a        *)
(* multiple of 1/pi degrees (per_pi).                                      *)
(***************************************************************************)
Abs(x) == IF x < 0 THEN -x ELSE x

RECURSIVE GCD(_, _)
GCD(a, b) == IF b = 0 THEN a ELSE GCD(b, a % b)

Frac(n, d) ==
    LET g == GCD(Abs(n), Abs(d))
    IN  IF d < 0 THEN [n |-> (-n) \div g, d |-> (-d) \div g]
        ELSE [n |-> n \div g, d |-> d \div g]
Whole(k) == Frac(k, 1)

\* a * b, a / b (b is not zero), a + b and a <= b
Times(a, b) ==
    LET g1 == GCD(Abs(a.n), b.d)
        g2 == GCD(Abs(b.n), a.d)
    IN  Frac((a.n \div g1) * (b.n \div g2), (a.d \div g2) * (b.d \div g1))
Over(a, b) == Times(a, Frac(b.d, b.n))
Plus(a, b) == Frac(a.n * b.d + b.n * a.d, a.d * b.d)
AtMost(a, b) == a.n * b.d <= b.n * a.d

\* earth_radius = 6378137.0 (line 18)
earth_radius == 6378137

\* math.sqrt(random.random()): random() lies in [0, 1), so does its root.
\* The roots told apart are the multiples of 1/MaxRoot.
Roots == {Frac(k, MaxRoot) : k \in 0..(MaxRoot - 1)}

\* 2 * math.pi * random.random() (line 26), by its sine and cosine
Angles ==
    { [sin |-> Frac(p[1], 5), cos |-> Frac(p[2], 5)] :
        p \in { <<0, 5>>, <<5, 0>>, <<0, -5>>, <<-5, 0>>,
                <<3, 4>>, <<4, 3>>, <<-3, 4>>, <<3, -4>>, <<-4, -3>> } }

\* The centres and radii a caller gives: latitudes whose cosine is a
\* fraction.
Latitudes == {0, 60, -60}
Longitudes == {0, 110}
Radii == {0, 1, 30}

\* math.cos(math.radians(lat)) (line 35)
CosOfDegrees(lat) == IF lat = 0 THEN Whole(1) ELSE Frac(1, 2)

\* (mutant) the factor of half turns
degrees_of_half_turns(x) == Times(x, Whole(360))

\* math.degrees(x) = x * 180 / pi, as a multiple of 1/pi
degrees(x) == Times(x, Whole(180))

\* lat + delta_lat_deg (lines 42-43)
Moved(coordinate, delta_deg) == [deg |-> Whole(coordinate), per_pi |-> delta_deg]

\* generate_random_point(lat, lon, radius_m) for the two values random.random()
\* gives: root is math.sqrt of the first, angle 2 * math.pi times the second.
generate_random_point(lat, lon, radius_m, root, angle) ==
    LET random_dist == Times(root, Whole(radius_m))
        delta_lat_rad == Times(Over(random_dist, Whole(earth_radius)), angle.sin)
        delta_lon_rad ==
            Times(Over(random_dist, Times(Whole(earth_radius), CosOfDegrees(lat))),
                  angle.cos)
        delta_lat_deg == degrees(delta_lat_rad)
        delta_lon_deg == degrees(delta_lon_rad)
    IN  [new_lat |-> Moved(lat, delta_lat_deg), new_lon |-> Moved(lon, delta_lon_deg)]

\* One call of generate_random_point.
GenerateRandomPoint ==
    /\ point.op = "none"
    /\ \E lat \in Latitudes, lon \in Longitudes, radius_m \in Radii,
          root \in Roots, angle \in Angles :
            point' = [op |-> "generate_random_point",
                      lat |-> lat, lon |-> lon, radius_m |-> radius_m,
                      root |-> root, angle |-> angle,
                      ret |-> generate_random_point(lat, lon, radius_m, root, angle)]
    /\ UNCHANGED sessionVars
    /\ UNCHANGED scrapeVars
    /\ UNCHANGED parseVars
    /\ UNCHANGED submitVars
    /\ UNCHANGED concurrentVars
    /\ UNCHANGED programsVars
    /\ UNCHANGED schedulerVars
    /\ UNCHANGED menuVars

\* A caller is about to ask for a point; nothing else runs.
PointInit ==
    /\ cache = [k \in CacheKeys |-> NoEntry]
    /\ now = 0 /\ ticks = 0 /\ sessions = 0 /\ lastCall = NoCall
    /\ op = "none" /\ rows = <<>> /\ pc = "done" /\ i = 0 /\ j = 0
    /\ entries = <<>> /\ entry_data = NoEntryData
    /\ all_sub_attended = FALSE /\ notattendedflag = FALSE
    /\ sub_entry_found = FALSE /\ scans = <<>> /\ result = NotReturned
    /\ container = FALSE
    /\ given = NoGiven /\ datetime_str = <<>> /\ parsed = NotReturned
    /\ submit = NoSubmit
    /\ callers = [c \in Callers |-> NoCaller]
    /\ jar = NoJar /\ programs = NoOperation
    /\ point = NoPoint
    /\ scheduler = NoScheduler /\ menu = NoMenu

PointNext == GenerateRandomPoint

SpecPoint == PointInit /\ [][PointNext]_vars

(***************************************************************************)
(* The attendance server: main (src/src/main.py, lines 12-74) and          *)
(* get_next_run_time (src/src/utils.py, lines 50-88).  A time is a number  *)
(* of seconds since 00:00:00 of the day the process started; a reading of  *)
(* the clock is the second it falls in.                                    *)
(***************************************************************************)
\* RUN_WINDOW_START_HOUR = 4 and RUN_WINDOW_END_HOUR = 10 (lines 50-51)
RUN_WINDOW_START_HOUR == 4
RUN_WINDOW_END_HOUR == 10

\* now.replace(hour=h, minute=m, second=s, microsecond=0)
Replace(t, h, m, s) == (t - (t % 86400)) + 3600 * h + 60 * m + s

\* (mutant) the window's first second still counts as before the window
target_day_strict(t) ==
    IF t > Replace(t, RUN_WINDOW_START_HOUR, 0, 0) THEN t + 86400 ELSE t

\* Lines 65-76: target_day, from now and today_run_window_start
target_day(t) ==
    IF t >= Replace(t, RUN_WINDOW_START_HOUR, 0, 0) THEN t + 86400 ELSE t

\* get_next_run_time() when datetime.now() reads t and the three
\* random.randint calls give draw = <<hour, minute, second>>.
get_next_run_time(t, draw) == Replace(target_day(t), draw[1], draw[2], draw[3])

\* What random.randint gives (lines 80-82): the ends of the ranges and a
\* time in between.
Draws ==
    { <<RUN_WINDOW_START_HOUR, 0, 0>>, <<RUN_WINDOW_START_HOUR + 2, 30, 0>>,
      <<RUN_WINDOW_END_HOUR - 1, 59, 59>> }

\* When the process starts: around the window's ends and the day's ends.
Startups ==
    { 0, 3600 * RUN_WINDOW_START_HOUR - 1, 3600 * RUN_WINDOW_START_HOUR,
      3600 * RUN_WINDOW_END_HOUR - 1, 3600 * RUN_WINDOW_END_HOUR, 86399 }

\* The seconds a call of submit_kkn_attendance takes, and the seconds that
\* pass between the clock reading of get_next_run_time (line 64 of utils.py)
\* and the one of line 62 of main.py.
Tooks == {0, 5}
Elapses == {0, 1}

\* Lines 55-56: the initial attendance post.
Startup ==
    /\ scheduler.pc = "start"
    /\ \E took \in Tooks :
        scheduler' = [scheduler EXCEPT
                        !.pc = "loop",
                        !.posts = <<scheduler.clock>>,
                        !.clock = scheduler.clock + took]
    /\ UNCHANGED sessionVars
    /\ UNCHANGED scrapeVars
    /\ UNCHANGED parseVars
    /\ UNCHANGED submitVars
    /\ UNCHANGED concurrentVars
    /\ UNCHANGED programsVars
    /\ UNCHANGED pointVars
    /\ UNCHANGED menuVars

\* One pass of `while True` (lines 60-74): the next run time, the sleep until
\* then if it lies ahead, the attendance post, the sleep of 60 seconds.
LoopPass ==
    /\ scheduler.pc = "loop"
    /\ scheduler.passes < MaxPasses
    /\ \E draw \in Draws, elapsed \in Elapses, took \in Tooks :
        LET next_run == get_next_run_time(scheduler.clock, draw)
            read == scheduler.clock + elapsed
            sleep_duration == next_run - read
            woke == IF sleep_duration > 0 THEN read + sleep_duration ELSE read
        IN  scheduler' = [scheduler EXCEPT
                            !.passes = @ + 1,
                            !.now = scheduler.clock,
                            !.next_run = next_run,
                            !.sleep_duration = sleep_duration,
                            !.slept = sleep_duration > 0,
                            !.posts = Append(@, woke),
                            !.clock = woke + took + 60]
    /\ UNCHANGED sessionVars
    /\ UNCHANGED scrapeVars
    /\ UNCHANGED parseVars
    /\ UNCHANGED submitVars
    /\ UNCHANGED concurrentVars
    /\ UNCHANGED programsVars
    /\ UNCHANGED pointVars
    /\ UNCHANGED menuVars

\* main has logged in (lines 29-34) and is about to post for the first time.
SchedulerInit ==
    /\ cache = [k \in CacheKeys |-> NoEntry]
    /\ now = 0 /\ ticks = 0 /\ sessions = 0 /\ lastCall = NoCall
    /\ op = "none" /\ rows = <<>> /\ pc = "done" /\ i = 0 /\ j = 0
    /\ entries = <<>> /\ entry_data = NoEntryData
    /\ all_sub_attended = FALSE /\ notattendedflag = FALSE
    /\ sub_entry_found = FALSE /\ scans = <<>> /\ result = NotReturned
    /\ container = FALSE
    /\ given = NoGiven /\ datetime_str = <<>> /\ parsed = NotReturned
    /\ submit = NoSubmit
    /\ callers = [c \in Callers |-> NoCaller]
    /\ jar = NoJar /\ programs = NoOperation
    /\ point = NoPoint
    /\ scheduler \in { [pc |-> "start", clock |-> t, posts |-> <<>>, passes |-> 0,
                        now |-> 0, next_run |-> 0, sleep_duration |-> 0,
                        slept |-> FALSE] : t \in Startups }
    /\ menu = NoMenu

SchedulerNext == Startup \/ LoopPass

SpecScheduler == SchedulerInit /\ [][SchedulerNext]_vars

(***************************************************************************)
(* The interactive menu: main and handle_change_account                    *)
(* (src/src/kkn_utils.py, lines 664-728).  A Session is named by the       *)
(* account it was logged in for; None is the value None.                   *)
(***************************************************************************)
\* What input() and getpass() give after strip(): nothing, or a name.
TypedUsernames == {"", "other"}
TypedPasswords == {"", "secret"}

\* The menu choices that call a handler with the session (lines 706-717).
HandlerChoices == {"1", "2", "3", "4", "5", "6"}

\* handle_change_account() (lines 664-676): None for an empty username or
\* password (the bare return of line 670), else what get_simaster_session
\* returned, a Session or None.
handle_change_account(username, password, login_ok) ==
    IF username = "" \/ password = "" THEN None
    ELSE IF login_ok THEN username ELSE None

\* Lines 679-690: the login with the credentials of the environment; main
\* returns when it fails.
MenuLogin ==
    /\ menu.pc = "login"
    /\ \E login_ok \in BOOLEAN :
        menu' = IF login_ok
                THEN [menu EXCEPT !.pc = "menu", !.session = "env"]
                ELSE [menu EXCEPT !.pc = "returned"]
    /\ UNCHANGED sessionVars
    /\ UNCHANGED scrapeVars
    /\ UNCHANGED parseVars
    /\ UNCHANGED submitVars
    /\ UNCHANGED concurrentVars
    /\ UNCHANGED programsVars
    /\ UNCHANGED pointVars
    /\ UNCHANGED schedulerVars

\* Choices '1' to '6' (lines 706-718): the handler is called with session.
MenuHandler ==
    /\ menu.pc = "menu" /\ Len(menu.done) < MaxChoices
    /\ \E choice \in HandlerChoices :
        menu' = [menu EXCEPT
                    !.done = Append(@, [choice |-> choice, session |-> menu.session])]
    /\ UNCHANGED sessionVars
    /\ UNCHANGED scrapeVars
    /\ UNCHANGED parseVars
    /\ UNCHANGED submitVars
    /\ UNCHANGED concurrentVars
    /\ UNCHANGED programsVars
    /\ UNCHANGED pointVars
    /\ UNCHANGED schedulerVars

\* Choice '7' (lines 719-721): session = handle_change_account().
MenuChangeAccount ==
    /\ menu.pc = "menu" /\ Len(menu.done) < MaxChoices
    /\ \E username \in TypedUsernames, password \in TypedPasswords,
          login_ok \in BOOLEAN :
        LET session == handle_change_account(username, password, login_ok)
        IN  menu' = [menu EXCEPT
                        !.session = session,
                        !.done = Append(@, [choice |-> "7", session |-> session])]
    /\ UNCHANGED sessionVars
    /\ UNCHANGED scrapeVars
    /\ UNCHANGED parseVars
    /\ UNCHANGED submitVars
    /\ UNCHANGED concurrentVars
    /\ UNCHANGED programsVars
    /\ UNCHANGED pointVars
    /\ UNCHANGED schedulerVars

\* Choice '8' (lines 722-724) leaves the loop.
MenuExit ==
    /\ menu.pc = "menu"
    /\ menu' = [menu EXCEPT !.pc = "returned"]
    /\ UNCHANGED sessionVars
    /\ UNCHANGED scrapeVars
    /\ UNCHANGED parseVars
    /\ UNCHANGED submitVars
    /\ UNCHANGED concurrentVars
    /\ UNCHANGED programsVars
    /\ UNCHANGED pointVars
    /\ UNCHANGED schedulerVars

\* Any other input (lines 725-726) calls nothing.
MenuInvalidChoice ==
    /\ menu.pc = "menu" /\ Len(menu.done) < MaxChoices
    /\ menu' = [menu EXCEPT
                    !.done = Append(@, [choice |-> "other", session |-> menu.session])]
    /\ UNCHANGED sessionVars
    /\ UNCHANGED scrapeVars
    /\ UNCHANGED parseVars
    /\ UNCHANGED submitVars
    /\ UNCHANGED concurrentVars
    /\ UNCHANGED programsVars
    /\ UNCHANGED pointVars
    /\ UNCHANGED schedulerVars

\* main has read the credentials of the environment (lines 679-684).
MenuInit ==
    /\ cache = [k \in CacheKeys |-> NoEntry]
    /\ now = 0 /\ ticks = 0 /\ sessions = 0 /\ lastCall = NoCall
    /\ op = "none" /\ rows = <<>> /\ pc = "done" /\ i = 0 /\ j = 0
    /\ entries = <<>> /\ entry_data = NoEntryData
    /\ all_sub_attended = FALSE /\ notattendedflag = FALSE
    /\ sub_entry_found = FALSE /\ scans = <<>> /\ result = NotReturned
    /\ container = FALSE
    /\ given = NoGiven /\ datetime_str = <<>> /\ parsed = NotReturned
    /\ submit = NoSubmit
    /\ callers = [c \in Callers |-> NoCaller]
    /\ jar = NoJar /\ programs = NoOperation
    /\ point = NoPoint
    /\ scheduler = NoScheduler
    /\ menu = [pc |-> "login", session |-> None, done |-> <<>>]

MenuNext ==
    MenuLogin \/ MenuHandler \/ MenuChangeAccount \/ MenuExit \/ MenuInvalidChoice

SpecMenu == MenuInit /\ [][MenuNext]_vars

(***************************************************************************)
(* Claims about two threads in get_simaster_session, checked under         *)
(* SpecConcurrent                                                          *)
(***************************************************************************)
\* Two calls that ran at the same time with the same credentials, both
\* allowed to reuse, begun while the cache held no valid entry for the key,
\* and both returned; every login POST was answered with isLogin == 1.
RacedPair(a, b) ==
    /\ a # b
    /\ callers[a].pc = "done" /\ callers[b].pc = "done"
    /\ callers[a].cred = callers[b].cred
    /\ callers[a].reuse /\ callers[b].reuse
    /\ callers[a].overlapped /\ callers[b].overlapped
    /\ callers[a].missAtEntry /\ callers[b].missAtEntry
    /\ callers[a].login \in {"none", "isLogin"}
    /\ callers[b].login \in {"none", "isLogin"}

\* C21: when two callers run get_simaster_session at the same time with the
\* same credentials and no valid cache entry, at most one login POST is
\* issued for the key and both callers end with the same Session object.
C21_GetOrCreateIsAtomic ==
    \A a, b \in Callers :
        RacedPair(a, b) =>
            /\ callers[a].posts + callers[b].posts <= 1
            /\ callers[a].ret = callers[b].ret

(***************************************************************************)
(* Claims about the session manager, checked under SpecSession             *)
(***************************************************************************)
KeyOf(call) == get_cache_key(call.cred[1], call.cred[2])

C2_FailedValidationRelogin ==
    (lastCall.found # 0 /\ lastCall.home \in {"non200", "error"})
        => /\ lastCall.posts = 1
           /\ lastCall.login = "isLogin"
                => /\ lastCall.ret # 0
                   /\ lastCall.ret # lastCall.found
                   /\ lastCall.ret = sessions
                   /\ cache[KeyOf(lastCall)].ses = lastCall.ret
           /\ lastCall.login # "isLogin" => lastCall.ret = 0

\* A cached Session failed its validation by a request error and the call
\* logged in anew.
C2_Witness ==
    /\ lastCall.found # 0 /\ lastCall.home = "error" /\ lastCall.gets = 1
    /\ lastCall.posts = 1 /\ lastCall.login = "isLogin"
    /\ lastCall.ret # lastCall.found

\* C17: a call issues at most one login POST, on a Session constructed for
\* it; when that POST fails (request error, HTTP error status) or its answer
\* does not carry isLogin == 1, the call returns None and the cache is left
\* exactly as it was, so no Session is stored for the key.
C17_FailedLoginStoresNothing ==
    [][ lastCall'.seq # lastCall.seq
        => /\ lastCall'.posts <= 1
           /\ sessions' = sessions + lastCall'.posts
           /\ lastCall'.login \in {"rejected", "not_object", "error"}
                => /\ lastCall'.posts = 1
                   /\ lastCall'.ret = 0 /\ ~lastCall'.raised
                   /\ cache' = cache ]_vars

\* C18: after a call in which the cached Session failed its validation, the
\* cache does not map the key to that Session any more, whether or not the
\* new login succeeded.
C18_FailedSessionLeavesCache ==
    (lastCall.found # 0 /\ lastCall.home \in {"non200", "error"})
        => cache[KeyOf(lastCall)].ses # lastCall.found

\* C19: an entry expires SESSION_TTL seconds after the successful login that
\* stored it: only a successful login writes the cache, and it writes the
\* key of the call with expiry time-of-login + SESSION_TTL; a call that
\* reuses a Session, a failed login and the passing of time leave the cache
\* as it is; a reusing call is given the entry exactly while the clock is
\* before the expiry, and from the expiry on it logs in anew.
C19_FixedExpiry ==
    [][ /\ lastCall'.seq = lastCall.seq => cache' = cache
        /\ lastCall'.seq # lastCall.seq
            => LET k == KeyOf(lastCall')
               IN  /\ lastCall'.login # "isLogin" => cache' = cache
                   /\ lastCall'.login = "isLogin"
                        => /\ cache'[k].ses = lastCall'.ret
                           /\ cache'[k].expires = now + SESSION_TTL
                           /\ \A o \in CacheKeys \ {k} : cache'[o] = cache[o]
                   /\ (lastCall'.reuse /\ cache[k].ses # 0)
                        => /\ now < cache[k].expires
                                => lastCall'.found = cache[k].ses
                           /\ now >= cache[k].expires
                                => /\ lastCall'.found = 0
                                   /\ lastCall'.posts = 1 ]_vars

\* A reusing call at the very second the entry of its key expired: nothing
\* was found, a login POST went out and the new entry expires SESSION_TTL
\* later.
C19_Witness ==
    /\ lastCall.stale /\ lastCall.reuse /\ lastCall.found = 0
    /\ lastCall.posts = 1 /\ lastCall.login = "isLogin"
    /\ lastCall.at = SESSION_TTL
    /\ cache[KeyOf(lastCall)].expires = 2 * SESSION_TTL

\* C20: a call is never handed the Session that the call before it logged
\* in with other credentials.
C20_NoSharedSession ==
    [][ ( /\ lastCall'.seq # lastCall.seq
          /\ lastCall.login = "isLogin"
          /\ lastCall'.ret = lastCall.ret )
        => lastCall'.cred = lastCall.cred ]_vars

\* The keys under which the cache holds a Session.
StoredKeys == {k \in CacheKeys : cache[k].ses # 0}
StoredKeysNext == {k \in CacheKeys : cache'[k].ses # 0}

\* C22: the cache holds at most one entry per credential key ever used: a
\* call touches no entry but the one of its own key, adds an entry only when
\* that key had none, and overwrites it otherwise, so the number of entries
\* never grows with the number of calls.
C22_OneEntryPerKey ==
    [][/\ \A k \in CacheKeys :
            cache'[k] # cache[k] => lastCall' # lastCall /\ k = KeyOf(lastCall')
       /\ lastCall' # lastCall =>
            /\ StoredKeysNext \subseteq StoredKeys \cup {KeyOf(lastCall')}
            /\ KeyOf(lastCall') \in StoredKeys =>
                    Cardinality(StoredKeysNext) = Cardinality(StoredKeys)
            /\ StoredKeys \subseteq StoredKeysNext]_vars

\* A second successful login with the same credentials has replaced the
\* entry of the first: still one entry, holding the newer Session.
C22_Witness ==
    /\ lastCall.afterLogin /\ lastCall.login = "isLogin"
    /\ lastCall.ret >= 2
    /\ StoredKeys = {KeyOf(lastCall)}
    /\ cache[KeyOf(lastCall)].ses = lastCall.ret

(***************************************************************************)
(* Claims about the scrapers, checked under SpecScrape                     *)
(***************************************************************************)
\* The shapes of rows, as the page shows them.
MainShaped(row) == Len(row) = 5
SubShaped(row) == Len(row) = 2 /\ \A k \in 1..Len(row[1]) : row[1][k] \in WS
Numbered(cell) ==
    \E k \in 1..Len(cell) :
        /\ cell[k] \in {"1", "7"}
        /\ \A m \in (1..Len(cell)) \ {k} : cell[m] \in WS

\* "Sudah", whitespace, "Presensi" somewhere in the text as scraped.
HasMarker(text) ==
    \E a, b \in 1..Len(text) :
        /\ a + 1 < b
        /\ text[a] = "Sudah" /\ text[b] = "Presensi"
        /\ \A k \in (a + 1)..(b - 1) : text[k] \in WS

\* The main entries the scraper has finished, and the one it is building.
Finished == {entries[k] : k \in 1..Len(entries)}
SubsOf(e) == {e.sub_entries[k] : k \in 1..Len(e.sub_entries)}
SubRowsOf(e) == [k \in 1..Len(e.sub_entries) |-> e.sub_entries[k].row]
Listed == op = "logbook" /\ pc = "done" /\ result.kind = "list"

\* The last main-shaped row before row r (0 if none).
NearestMain(r) ==
    IF \E m \in 1..(r - 1) : MainShaped(rows[m])
    THEN CHOOSE m \in 1..(r - 1) :
            /\ MainShaped(rows[m])
            /\ \A k \in (m + 1)..(r - 1) : ~MainShaped(rows[k])
    ELSE 0

\* Row r is a sub-entry of the main entry made from row m.
AttachedTo(r, m) ==
    \E e \in Finished : e.row = m /\ \E sub \in SubsOf(e) : sub.row = r

\* C3 (as claimed): an entry's attendance_status is "Sudah Presensi" exactly
\* when it has at least one sub-entry and all its sub-entries are attended,
\* and "Belum Presensi" otherwise.
C3_StatusIffAllAttended ==
    op = "logbook" =>
        \A e \in Finished :
            /\ e.attendance_status \in {SUDAH_PRESENSI, <<"Belum", " ", "Presensi">>}
            /\ e.attendance_status = SUDAH_PRESENSI
                 <=> /\ e.sub_entries # <<>>
                     /\ \A sub \in SubsOf(e) : sub.is_attended

\* C4 (as claimed): once the scraper is done, it has returned a list with
\* exactly one main entry per 5-cell row, whatever the cells hold.
C4_EveryMainRowAnEntry ==
    (op = "logbook" /\ pc = "done") =>
        /\ result.kind = "list"
        /\ Len(result.value) = Cardinality({k \in 1..Len(rows) : MainShaped(rows[k])})
        /\ \A k \in 1..Len(rows) :
              MainShaped(rows[k]) =>
                  \E x \in 1..Len(result.value) : result.value[x].row = k

\* C5 (as claimed): in a returned listing every sub-shaped row with a 5-cell
\* row before it is a sub-entry of the nearest preceding main entry, also
\* when rows of another shape lie in between.
C5_SubRowAlwaysAttached ==
    Listed =>
        \A r \in 1..Len(rows) :
            (SubShaped(rows[r]) /\ NearestMain(r) # 0)
                => AttachedTo(r, NearestMain(r))

\* C5 (amended): in a returned listing a sub-shaped row is a sub-entry of the
\* nearest preceding main entry exactly when every row between that main row
\* and it is sub-shaped too; otherwise it is a sub-entry of no entry.
C5_SubRowAttachedIffConsecutive ==
    Listed =>
        \A r \in 1..Len(rows) :
            SubShaped(rows[r]) =>
                LET m == NearestMain(r)
                    consecutive ==
                        m # 0 /\ \A k \in (m + 1)..(r - 1) : SubShaped(rows[k])
                IN  /\ consecutive => AttachedTo(r, m)
                    /\ ~consecutive =>
                          \A e \in Finished : \A sub \in SubsOf(e) : sub.row # r

\* A listing in which one sub-shaped row is attached and a later one, behind
\* a row of another shape, is not.
C5_Witness ==
    /\ Listed /\ Len(rows) = 4
    /\ MainShaped(rows[1]) /\ SubShaped(rows[2])
    /\ ~SubShaped(rows[3]) /\ ~MainShaped(rows[3]) /\ SubShaped(rows[4])
    /\ AttachedTo(2, 1) /\ ~AttachedTo(4, 1)

\* The row that ends the run of sub-shaped rows after main row m.
RunEnd(m) ==
    CHOOSE k \in (m + 1)..(Len(rows) + 1) :
        /\ k = Len(rows) + 1 \/ ~SubShaped(rows[k])
        /\ \A x \in (m + 1)..(k - 1) : SubShaped(rows[x])

\* C6: the sub_entries of every finished main entry are the rows of the
\* maximal run of sub-shaped rows right after its main row, in row order;
\* and in a returned listing every row was either examined once by the scan
\* for main rows or consumed once as a sub-row, so the row that ends a run is
\* examined exactly once.
C6_SubEntriesAreTheRun ==
    op = "logbook" =>
        /\ \A e \in Finished :
              SubRowsOf(e) = [k \in 1..(RunEnd(e.row) - e.row - 1) |-> e.row + k]
        /\ Listed =>
              \A r \in 1..Len(rows) :
                  scans[r] + Cardinality({e \in Finished :
                                             \E sub \in SubsOf(e) : sub.row = r}) = 1
        /\ Listed =>
              \A e \in Finished :
                  RunEnd(e.row) <= Len(rows) => scans[RunEnd(e.row)] = 1

\* Two sub-rows, then a main row that ends the run and becomes the next
\* entry.
C6_Witness ==
    /\ Listed /\ Len(entries) = 2
    /\ Len(entries[1].sub_entries) = 2
    /\ entries[2].row = entries[1].row + 3
    /\ scans[entries[2].row] = 1
    /\ entries[2].sub_entries = <<>>

\* C7: a sub-entry is attended exactly when the text of its row's second
\* cell holds "Sudah", whitespace, "Presensi" (the marker after whitespace
\* normalisation); a row with no "Presensi" control is not attended for that.
C7_AttendedIffMarker ==
    op = "logbook" =>
        \A e \in Finished \cup (IF pc = "inner" THEN {entry_data} ELSE {}) :
            \A sub \in SubsOf(e) :
                sub.is_attended <=> HasMarker(rows[sub.row][2])

\* One entry with an attended sub-row (marker broken over two lines) and a
\* sub-row that has neither the marker nor a "Presensi" control.
C7_Witness ==
    /\ Listed
    /\ \E e \in Finished :
          \E s1, s2 \in SubsOf(e) :
              /\ s1.is_attended /\ rows[s1.row] = LogbookSubAttended
              /\ ~s2.is_attended /\ rows[s2.row] = LogbookSubPlain

\* A row that is itself a main row or a sub-entry row of the Program Bantu
\* table.
PicOwnsRow(r) ==
    \/ Len(rows[r]) = 6 /\ \E k \in 1..Len(rows[r][1]) : rows[r][1][k] \notin WS
    \/ Len(rows[r]) = 2 /\ PicPattern(strip(rows[r][2])).matched

\* C8 (as claimed): a sub-entry is attended only on marker text of its own:
\* for get_logbook_entries_by_id the marker in its own row, for
\* get_bantu_pic_entries the marker in its own row or in one of the next two
\* rows that is not the row of another entry.
C8_AttendanceFromOwnText ==
    /\ op = "logbook" =>
          \A e \in Finished : \A sub \in SubsOf(e) :
              sub.is_attended => HasMarker(rows[sub.row][2])
    /\ op = "pic" =>
          \A e \in Finished : \A sub \in SubsOf(e) :
              sub.is_attended =>
                  \E r \in sub.row..(sub.row + 2) :
                      /\ r <= Len(rows)
                      /\ r # sub.row => ~PicOwnsRow(r)
                      /\ Contains(RowText(rows[r]), SUDAH_PRESENSI)

\* C9 (as claimed): a Program Bantu sub-entry made from row r is attended
\* exactly when the marker occurs in row r, r+1 or r+2, as far as they exist.
C9_MarkerInThreeRows ==
    op = "pic" =>
        \A e \in Finished : \A sub \in SubsOf(e) :
            sub.is_attended
                <=> \E r \in sub.row..(sub.row + 2) :
                        r <= Len(rows) /\ Contains(RowText(rows[r]), SUDAH_PRESENSI)

\* C10: while sub-rows are consumed, the entry under construction holds one
\* record per consumed row, in row order; a record of a row whose text does
\* not match the pattern has the whole normalised text as title and "N/A" as
\* datetime_str and duration; and the listing fails only at a 5-cell row
\* whose first cell is no number, never at a sub-row.
C10_UnmatchedSubRowKept ==
    op = "logbook" =>
        /\ pc = "inner" =>
              SubRowsOf(entry_data)
                  = [k \in 1..(j - entry_data.row - 1) |-> entry_data.row + k]
        /\ \A e \in Finished \cup (IF pc = "inner" THEN {entry_data} ELSE {}) :
              \A sub \in SubsOf(e) :
                  ~LogbookPattern(join_split(rows[sub.row][2])).matched
                      => /\ sub.title = join_split(rows[sub.row][2])
                         /\ sub.datetime_str = NOT_AVAILABLE
                         /\ sub.duration = NOT_AVAILABLE
        /\ result.kind = "None" => MainShaped(rows[i]) /\ ~Numbered(rows[i][1])
        /\ result.kind # "Raised"

\* A returned listing with a matched sub-row and an unmatched one, whose
\* title is its text with the whitespace runs collapsed.
C10_Witness ==
    /\ Listed
    /\ \E e \in Finished :
          \E s1, s2 \in SubsOf(e) :
              /\ s1.datetime_str # NOT_AVAILABLE /\ s1.title = <<"rapat">>
              /\ rows[s2.row] = LogbookSubPlain
              /\ s2.title = <<"catatan", " ", "bebas">>
              /\ s2.datetime_str = NOT_AVAILABLE /\ s2.duration = NOT_AVAILABLE

(***************************************************************************)
(* Claims about parse_datetime_range, checked under SpecParse              *)
(***************************************************************************)
\* What a reader takes from the words of a given string: the number of a
\* day word, the month number of a month word (0 for no month), the hour
\* and minute of a clock word.
WrittenDay(w) ==
    CASE w = <<"2">> -> 2 [] w = <<"8">> -> 8 [] w = <<"9">> -> 9 [] w = <<"3", "0">> -> 30
      [] w = <<"3", "2">> -> 32 [] w = <<"1", "1", "2">> -> 112 [] OTHER -> 0
WrittenMonth(w) ==
    CASE w = <<"J", "u", "l", "i">> -> 7 [] w = <<"F", "e", "b", "r", "u", "a", "r", "i">> -> 2 [] OTHER -> 0
WrittenClock(w) ==
    CASE w = <<"1", "3", ":", "0", "0">> -> <<13, 0>> [] w = <<"1", "9", ":", "0", "0">> -> <<19, 0>> [] w = <<"2", "5", ":", "0", "0">> -> <<25, 0>>
      [] w = <<"1", "6", ":", "0", "0">> -> <<16, 0>> [] w = <<"0", "0", ":", "0", "0">> -> <<0, 0>> [] w = <<"1", "3", ":", "6", "0">> -> <<13, 60>>
      [] OTHER -> <<99, 99>>
\* A day, month and clock time of the year 2025 that exist.
Exists2025(day, month, clock) ==
    /\ month \in {2, 7}
    /\ day >= 1 /\ day <= (IF month = 7 THEN 31 ELSE 28)
    /\ clock[1] <= 23 /\ clock[2] <= 59
At2025(day, month, clock) == <<2025, month, day, clock[1], clock[2]>>

\* The pair a range stands for when its first day is read as `day`.
RangeOf(g, day) ==
    IF g.kind = "sameday"
    THEN << At2025(day, WrittenMonth(g.m1), WrittenClock(g.t1)),
            At2025(day, WrittenMonth(g.m1), WrittenClock(g.t2)) >>
    ELSE << At2025(day, WrittenMonth(g.m1), WrittenClock(g.t1)),
            At2025(WrittenDay(g.d2), WrittenMonth(g.m2), WrittenClock(g.t2)) >>
RangeExists(g, day) ==
    /\ Exists2025(day, WrittenMonth(g.m1), WrittenClock(g.t1))
    /\ IF g.kind = "sameday"
       THEN Exists2025(day, WrittenMonth(g.m1), WrittenClock(g.t2))
       ELSE Exists2025(WrittenDay(g.d2), WrittenMonth(g.m2), WrittenClock(g.t2))

\* C11 as stated: a string that IS one of the two shapes, "D Month YYYY
\* HH:MM - HH:MM" or "D Month YYYY HH:MM s.d D Month YYYY HH:MM" (a trailing
\* " WIB" allowed), with known months and day and times in range, maps to its
\* two datetimes; every other string maps to (None, None).
C11_OnlyTheShapesParse ==
    parsed.kind = "pair"
        => IF /\ given.kind \in {"sameday", "overnight"}
              /\ given.pre = <<>> /\ given.gap = <<" ">>
              /\ given.suf \in {<<>>, <<" ", "W", "I", "B">>}
              /\ RangeExists(given, WrittenDay(given.d1))
           THEN parsed.value = RangeOf(given, WrittenDay(given.d1))
           ELSE parsed.value = <<NoDatetime, NoDatetime>>

\* C11, amended: the two shapes are looked for anywhere inside the string.
\* A string that contains one of them, whatever text stands before or after
\* it, maps to the two datetimes of the shape found, the first day being the
\* one or two digits directly before the space that precedes the month;
\* when a month name is unknown, or a day or time is out of range, and for
\* every string that contains neither shape, the result is (None, None).
C11_ShapeFoundAnywhere ==
    parsed.kind = "pair"
        => LET day == WrittenDay(given.d1) % 100
           IN  IF /\ given.kind \in {"sameday", "overnight"}
                  /\ given.gap = <<" ">>
                  /\ RangeExists(given, day)
               THEN parsed.value = RangeOf(given, day)
               ELSE parsed.value = <<NoDatetime, NoDatetime>>

\* "x 2 Juli 2025 13:00 - 16:00 WIB" was parsed, text before the shape and
\* all, to 2 July 2025 13:00 and 16:00.
C11_Witness ==
    /\ given.kind = "sameday" /\ given.pre = <<"x", " ">>
    /\ given.d1 = <<"2">> /\ given.m1 = <<"J", "u", "l", "i">> /\ given.suf = <<" ", "W", "I", "B">>
    /\ parsed.kind = "pair"
    /\ parsed.value = << <<2025, 7, 2, 13, 0>>, <<2025, 7, 2, 16, 0>> >>

(***************************************************************************)
(* Claims about the submit operations, checked under SpecSubmit            *)
(***************************************************************************)
\* C12: whichever submit operation it is, when its POST is answered with a
\* success status (2xx) and a body that parses as JSON, the operation returns
\* True if the JSON has status "success" and False in every other case
\* (another status, no status).
C12_JsonStatusDecides ==
    ( /\ submit.posts # <<>>
      /\ submit.response.http \in {200, 201}
      /\ submit.response.body \in JsonBodies )
        => /\ submit.ret \in {"True", "False"}
           /\ submit.ret = "True" <=> submit.response.body = "json_success"

\* C13: whichever submit operation it is, when its POST is answered with
\* status 200, a body that is not JSON and no error banner, the operation
\* returns True.
C13_PlainPageIsSuccess ==
    ( /\ submit.posts # <<>>
      /\ submit.response.http = 200
      /\ submit.response.body = "html_plain" )
        => submit.ret = "True"

\* C14: whichever submit operation it is, when its POST is answered with
\* status 200, a body that is not JSON and an error banner in the page, the
\* operation returns False.
C14_BannerIsFailure ==
    ( /\ submit.posts # <<>>
      /\ submit.response.http = 200
      /\ submit.response.body = "html_banner" )
        => submit.ret = "False"

\* The keys whose values the caller of the operation hands in.
CallerFields(operation) ==
    IF operation = "add_kkn_logbook_entry"
    THEN {"dParam[judul]", "dParam[pelaksanaan]", "dParam[lokasi]"}
    ELSE {"dParam[judul]", "dParam[pelaksanaan]", "dParam[durasi]",
          "dParam[deskripsi]", "dParam[sasaran]", "dParam[jumPeserta]",
          "dParam[jumDana]", "dParam[hasilKegiatan]"}
WrittenFields(operation) ==
    IF operation = "add_kkn_logbook_entry" THEN LogbookEntryFields
    ELSE SubEntryFields

\* C15 as stated: the one POST of add_kkn_logbook_entry and of
\* create_sub_entry_base goes to the form's action URL, and its data hold
\* every hidden input of the form under its name: with the caller's value
\* when the caller supplies that key, with the input's own value otherwise.
C15_EveryHiddenInputSent ==
    (submit.op \in {"add_kkn_logbook_entry", "create_sub_entry_base"}
        /\ submit.posts # <<>>)
    => LET post == submit.posts[1]
       IN  /\ Len(submit.posts) = 1
           /\ post.url = submit.action
           /\ \A k \in 1..Len(submit.hidden) :
                LET inp == submit.hidden[k]
                IN  /\ inp.name \in DOMAIN post.data
                    /\ post.data[inp.name] =
                        IF inp.name \in CallerFields(submit.op)
                        THEN WrittenFields(submit.op)[inp.name]
                        ELSE inp.value

\* C15, amended: the one POST goes to the form's action URL; its data have
\* exactly the names of the hidden inputs and the keys the operation writes;
\* every key the operation writes (the caller's fields and, in
\* create_sub_entry_base, the constants dParam[sumberDana] = "1" and
\* dParam[sumberDanaLain] = "") carries the operation's value; every other
\* name carries the value of the last hidden input of that name.
C15_HiddenInputsSentByName ==
    (submit.op \in {"add_kkn_logbook_entry", "create_sub_entry_base"}
        /\ submit.posts # <<>>)
    => LET post == submit.posts[1]
           names == {submit.hidden[k].name : k \in 1..Len(submit.hidden)}
           written == WrittenFields(submit.op)
       IN  /\ Len(submit.posts) = 1
           /\ post.url = submit.action
           /\ DOMAIN post.data = names \cup DOMAIN written
           /\ \A key \in DOMAIN written : post.data[key] = written[key]
           /\ \A n \in names \ DOMAIN written :
                \E k \in 1..Len(submit.hidden) :
                    /\ submit.hidden[k].name = n
                    /\ post.data[n] = submit.hidden[k].value
                    /\ \A q \in (k + 1)..Len(submit.hidden) :
                            submit.hidden[q].name # n

\* create_sub_entry_base met a form with the hidden inputs
\* dParam[sumberDana] = "h1" and simasterUGM_token = "h2" and posted
\* dParam[sumberDana] = "1" and simasterUGM_token = "h2".
C15_Witness ==
    /\ submit.op = "create_sub_entry_base"
    /\ submit.hidden = << [name |-> "dParam[sumberDana]", value |-> "h1"],
                          [name |-> "simasterUGM_token", value |-> "h2"] >>
    /\ Len(submit.posts) = 1
    /\ submit.posts[1].url = "action_url"
    /\ submit.posts[1].data["dParam[sumberDana]"] = "1"
    /\ submit.posts[1].data["simasterUGM_token"] = "h2"

\* Row k of table t is the sub-row the operation matches: the first 2-cell
\* row holding the title in the unbroken run of 2-cell rows after the first
\* 5-cell row numbered main_entry_index, the 5-cell rows before that one
\* carrying other numbers.
MatchedSubRow(t, k) ==
    \E m \in 1..(k - 1) :
        /\ Len(t[m].cells) = 5 /\ t[m].cells[1] = <<"1">>
        /\ \A q \in 1..(m - 1) : Len(t[q].cells) = 5 => t[q].cells[1] = <<"7">>
        /\ \A q \in (m + 1)..k : Len(t[q].cells) = 2
        /\ Head(t[k].cells[1]) = "rapat"
        /\ \A q \in (m + 1)..(k - 1) : Head(t[q].cells[1]) # "rapat"
\* The <a> elements of a row whose text holds "Presensi", by position.
Controls(row) ==
    {a \in 1..Len(row.anchors) : \E x \in 1..Len(row.anchors[a].text) :
                                    row.anchors[a].text[x] = "Presensi"}

\* C16: when the sub-row post_attendance_for_sub_entry matches has no
\* "Presensi" control, or its (first) control has no ajaxify URL, the call
\* returns False and issues no POST to logbook_kegiatan_presensi.
C16_NoControlNoPost ==
    submit.op = "post_attendance_for_sub_entry"
    => \A k \in 1..Len(submit.table) :
        ( /\ MatchedSubRow(submit.table, k)
          /\ \/ Controls(submit.table[k]) = {}
             \/ submit.table[k].anchors[Min(Controls(submit.table[k]))].ajaxify = <<>> )
        => /\ submit.ret = "False"
           /\ \A p \in 1..Len(submit.posts) : submit.posts[p].url # ATTENDANCE_URL

\* The table held main row 7, main row 1, another sub-row with a control,
\* and the sub-row looked for with only a "Hapus" link: False, no POST.
C16_Witness ==
    /\ submit.op = "post_attendance_for_sub_entry"
    /\ submit.table = <<AttMain7, AttMain1, AttSubOther, AttSubAttended>>
    /\ submit.ret = "False"
    /\ submit.posts = <<>>

\* C23: in post_attendance_for_sub_entry the token sent in the attendance
\* POST is the simasterUGM_cookie value of the RPP page response when that
\* response sets one, otherwise the value in the Session's cookies; when
\* neither has the cookie the call fails before any attendance POST.
C23_ResponseCookieThenSessionCookie ==
    (submit.op = "post_attendance_for_sub_entry" /\ submit.pre = "ok") =>
        /\ \A k \in 1..Len(submit.posts) :
                submit.posts[k].data["simasterUGM_token"] =
                    IF submit.cookies.response # "" THEN submit.cookies.response
                    ELSE submit.cookies.session
        /\ (submit.cookies.response = "" /\ submit.cookies.session = "") =>
                submit.posts = <<>> /\ submit.ret = "False"

\* Both sources hold a cookie, the attendance POST went out and carried the
\* value of the response.
C23_Witness ==
    /\ submit.op = "post_attendance_for_sub_entry"
    /\ submit.cookies.response # "" /\ submit.cookies.session # ""
    /\ submit.cookies.response # submit.cookies.session
    /\ Len(submit.posts) = 1
    /\ submit.posts[1].url = ATTENDANCE_URL
    /\ submit.posts[1].data["simasterUGM_token"] = submit.cookies.response

(***************************************************************************)
(* Claims about the operations on one Session, checked under SpecPrograms  *)
(***************************************************************************)
\* The csrf_value of the last answer of the operation told of that carried
\* one ("" when none did).
FreshOf(operation) ==
    IF operation.csrf_value # "" THEN operation.csrf_value
    ELSE operation.data.csrf_value

\* The requests of the operation told of that read their token from the
\* Session's cookies: the data POST (lines 161-164) and the attendance POST
\* when the RPP page set no cookie (lines 614-617).
SessionReads(operation) ==
    {k \in 1..Len(operation.requests) :
        /\ operation.requests[k].method = "POST"
        /\ \/ operation.requests[k].url = DATA_URL
           \/ operation.rpp.set_cookie = ""}

\* C24: after any response that carries a fresh token (csrf_value) the
\* Session's stored token is that value when the operation returns, and the
\* next request that reads the token from the Session sends the fresh value:
\* the data POST sends the value the operations before left, the attendance
\* POST the value of the data response of its own call.
C24_FreshTokenStoredAndSent ==
    /\ FreshOf(programs) # "" => SessionToken(jar) = FreshOf(programs)
    /\ \A k \in SessionReads(programs) :
            LET fresh == IF programs.requests[k].url = DATA_URL
                              \/ programs.data.csrf_value = ""
                         THEN programs.fresh_before
                         ELSE programs.data.csrf_value
            IN  fresh # "" => programs.requests[k].token = fresh

\* What each operation returns when a GET of it fails (RequestException).
PresensiOnError == post_kkn_presensi(Navigate(PresensiSteps, <<"error">>), NotAsked)
ProgramsOnError ==
    get_kkn_programs(jar, [status |-> "error", link |-> NoLink], ErrorPage, NoData)
AttendanceOnError ==
    post_attendance_for_sub_entry(
        Navigate(AttendanceSteps, <<"present", "present", "present", "error">>),
        submit.cookies, <<>>, NotAsked)

\* C25: when the anti-forgery token cannot be found (post_kkn_presensi,
\* get_kkn_programs, post_attendance_for_sub_entry) the caller gets a result
\* that differs from the one the same operation gives on a network or HTTP
\* failure.
C25_TokenNotFoundIsDistinct ==
    /\ (submit.op = "post_kkn_presensi" /\ submit.stop = "token") =>
            submit.ret # PresensiOnError.ret
    /\ (programs.op = "get_kkn_programs" /\ programs.stop = "no_token") =>
            programs.ret # ProgramsOnError.ret
    /\ (submit.op = "post_attendance_for_sub_entry" /\ submit.stop = "token") =>
            submit.ret # AttendanceOnError.ret

\* A relative link as a path below the origin: its leading slash, if it has
\* one, is the separator.
PathBelowOrigin(link) == IF link[1] = "/" THEN Tail(link) ELSE link

\* C26: get_kkn_programs requests an absolute logbook link (one that starts
\* with "http") as it is, and a relative one as the portal's origin, one
\* "/", and the path, for links with and without a leading "/"; the URL
\* names the host simaster.ugm.ac.id.
C26_RelativeLinkOnPortalOrigin ==
    (programs.op = "get_kkn_programs" /\ Len(programs.requests) >= 2) =>
        LET link == programs.main.link
            url == programs.requests[2].url
        IN  IF StartsWithHttp(link) THEN url = link
            ELSE /\ url = BASE_URL \o <<"/">> \o PathBelowOrigin(link)
                 /\ HostOf(url) = SubSeq(BASE_URL, 9, Len(BASE_URL))

\* The steps of the operation a submit record tells of.
StepsOf(operation) ==
    CASE operation = "post_kkn_presensi" -> PresensiSteps
      [] operation = "add_kkn_logbook_entry" -> AddEntrySteps
      [] operation = "create_sub_entry_base" -> SubEntrySteps
      [] operation = "post_attendance_for_sub_entry" -> AttendanceSteps
      [] OTHER -> <<>>

\* The step at which the call told of found no link.
MissedAt(call) ==
    Min({k \in 1..Len(call.answers) : call.answers[k] = "absent"})

\* C27: in get_kkn_programs, add_kkn_logbook_entry, create_sub_entry_base
\* and post_attendance_for_sub_entry, when the pattern of a navigation link
\* does not match the page, the call returns failure at once: it issues no
\* further request (the pages fetched are those up to the step that missed,
\* no POST goes out) and requests no URL in place of the missing one.
C27_MissingLinkStopsTheCall ==
    /\ programs.stop = "no_link" =>
            /\ Len(programs.requests) = 1
            /\ programs.ret = ReturnedNone
    /\ programs.stop = "no_data_url" =>
            /\ Len(programs.requests) = 2
            /\ \A k \in 1..2 : programs.requests[k].method = "GET"
            /\ programs.ret = ReturnedNone
    /\ submit.stop \in {"rpp_link", "add_link"} =>
            LET steps == StepsOf(submit.op)
                taken == {steps[k].get : k \in 1..MissedAt(submit)} \ {None}
            IN  /\ submit.ret = "False"
                /\ submit.posts = <<>>
                /\ Len(submit.gets) = Cardinality(taken)
                /\ \A k \in 1..Len(submit.gets) : submit.gets[k] \in taken
    /\ (programs.op = "post_attendance_for_sub_entry"
            /\ submit.stop \in {"programs", "program", "rpp_link"}) =>
            /\ \A k \in 1..Len(programs.requests) :
                    programs.requests[k].url \notin {RPP_URL, BASE_URL}
            /\ Len(programs.requests) <= 3

\* add_kkn_logbook_entry found no 'Tambah' link on the RPP page and stopped
\* after that one GET, and then get_kkn_programs found no link on the main
\* page and stopped after its first GET.
C27_Witness ==
    /\ submit.op = "add_kkn_logbook_entry"
    /\ submit.stop = "add_link"
    /\ submit.gets = <<"rpp_url">>
    /\ submit.posts = <<>> /\ submit.ret = "False"
    /\ programs.op = "get_kkn_programs"
    /\ programs.stop = "no_link"
    /\ Len(programs.requests) = 1

(***************************************************************************)
(* Further claims about the scrapers, checked under SpecScrape             *)
(***************************************************************************)
\* C28: no scrape operation turns a structural failure into a default
\* value: get_kkn_programs for JSON without a data field,
\* get_logbook_entries_by_id for a page without table datatables2 and
\* get_bantu_pic_entries for a page without the "Program Bantu" panel return
\* something other than the empty list of a fetch that found no records.
C28_StructuralFailureIsNoEmptyList ==
    /\ (pc = "done" /\ ~container) => result # Returned(<<>>)
    /\ (programs.op = "get_kkn_programs" /\ programs.data.body = "no_data") =>
            programs.ret # Returned(<<>>)

\* C29: the list get_logbook_entries_by_id returns keeps the order of the
\* page: the main entries stand in the order of their rows, one for every
\* main row, each with the entry_index its row shows, and each entry's
\* sub-entries stand in the order of their rows; nothing is sorted,
\* renumbered or dropped by entry_index.
C29_ServerOrderKept ==
    Listed =>
        /\ \A a, b \in 1..Len(result.value) :
                a < b => result.value[a].row < result.value[b].row
        /\ \A k \in 1..Len(rows) :
                MainShaped(rows[k]) =>
                    \E a \in 1..Len(result.value) : result.value[a].row = k
        /\ \A a \in 1..Len(result.value) :
                LET e == result.value[a]
                IN  /\ MainShaped(rows[e.row])
                    /\ Numbered(rows[e.row][1])
                    /\ e.entry_index = (IF "7" \in {rows[e.row][1][k] :
                                                    k \in 1..Len(rows[e.row][1])}
                                        THEN 7 ELSE 1)
                    /\ \A x, y \in 1..Len(e.sub_entries) :
                            x < y => e.sub_entries[x].row < e.sub_entries[y].row

\* A listing whose first entry shows index 7 and has two sub-entries and
\* whose second entry shows index 1.
C29_Witness ==
    /\ Listed
    /\ Len(result.value) = 2
    /\ result.value[1].entry_index = 7
    /\ Len(result.value[1].sub_entries) = 2
    /\ result.value[2].entry_index = 1

(***************************************************************************)
(* Claims about generate_random_point, checked under SpecPoint             *)
(***************************************************************************)
\* The metres along the surface that an offset of delta_deg/pi degrees
\* stands for: math.radians of it, times the radius of the earth.
MetresOf(delta_deg) == Times(Over(delta_deg, Whole(180)), Whole(earth_radius))

\* C30: for every centre and every radius_m >= 0 the point
\* generate_random_point returns lies within radius_m of the centre (the
\* north-south offset and the east-west offset corrected by the cosine of
\* the latitude have a Euclidean length of at most radius_m), and for
\* radius_m = 0 the point is the centre.
C30_PointWithinRadius ==
    point.op = "generate_random_point" =>
        LET north == MetresOf(point.ret.new_lat.per_pi)
            east == Times(MetresOf(point.ret.new_lon.per_pi),
                          CosOfDegrees(point.lat))
        IN  /\ point.ret.new_lat.deg = Whole(point.lat)
            /\ point.ret.new_lon.deg = Whole(point.lon)
            /\ AtMost(Plus(Times(north, north), Times(east, east)),
                      Whole(point.radius_m * point.radius_m))
            /\ point.radius_m = 0 =>
                    /\ point.ret.new_lat.per_pi = Whole(0)
                    /\ point.ret.new_lon.per_pi = Whole(0)

\* A point at latitude 60 that was moved north-east by the largest part of
\* a radius of 30 metres: 3/5 of the distance to the north, and 4/5 of it to
\* the east, which is twice as many metres of longitude at the equator.
C30_Witness ==
    /\ point.op = "generate_random_point"
    /\ point.lat = 60 /\ point.radius_m = 30
    /\ point.root = Frac(MaxRoot - 1, MaxRoot)
    /\ point.angle = [sin |-> Frac(3, 5), cos |-> Frac(4, 5)]
    /\ MetresOf(point.ret.new_lat.per_pi) = Times(point.root, Whole(18))
    /\ MetresOf(point.ret.new_lon.per_pi) = Times(point.root, Whole(48))

(***************************************************************************)
(* Claims about the attendance server, checked under SpecScheduler         *)
(***************************************************************************)
\* The calendar date and the time of day of a time.
DateOf(t) == t \div 86400
ClockOf(t) == t % 86400

\* C31: the attendance server posts once per day: no two calls of
\* submit_kkn_attendance, the one at startup and those of the scheduling
\* loop, fall on the same calendar date, whenever the process starts.
C31_OnePostPerDate ==
    scheduler.pc # "none" =>
        \A a, b \in 1..Len(scheduler.posts) :
            a < b => DateOf(scheduler.posts[a]) # DateOf(scheduler.posts[b])

\* What C32 says of get_next_run_time itself: the time it returns is later
\* than now, its time of day lies in the run window, and its date is today
\* when now is before today's window and tomorrow otherwise.
NextRunInWindow ==
    /\ scheduler.next_run > scheduler.now
    /\ ClockOf(scheduler.next_run) >= 3600 * RUN_WINDOW_START_HOUR
    /\ ClockOf(scheduler.next_run) < 3600 * RUN_WINDOW_END_HOUR
    /\ DateOf(scheduler.next_run) =
            IF ClockOf(scheduler.now) < 3600 * RUN_WINDOW_START_HOUR
            THEN DateOf(scheduler.now) ELSE DateOf(scheduler.now) + 1

\* C32 (as claimed): get_next_run_time returns a time later than now, inside
\* the run window, today before the window's start and tomorrow otherwise;
\* hence the sleep duration the scheduling loop computes is always positive.
C32_SleepAlwaysPositive ==
    (scheduler.pc = "loop" /\ scheduler.passes > 0) =>
        /\ NextRunInWindow
        /\ scheduler.sleep_duration > 0

\* C32 (amended): the same of get_next_run_time; the sleep duration of the
\* loop is measured from a second reading of the clock and may be zero or
\* less; the loop sleeps exactly when it is positive, and the post that
\* follows is never made before the time get_next_run_time returned.
C32_NextRunLaterThanNow ==
    (scheduler.pc = "loop" /\ scheduler.passes > 0) =>
        /\ NextRunInWindow
        /\ scheduler.slept <=> scheduler.sleep_duration > 0
        /\ scheduler.posts[Len(scheduler.posts)] >= scheduler.next_run

\* get_next_run_time was called in the first second of the window and
\* returned a time of the next day.
C32_Witness ==
    /\ scheduler.pc = "loop" /\ scheduler.passes > 0
    /\ ClockOf(scheduler.now) = 3600 * RUN_WINDOW_START_HOUR
    /\ DateOf(scheduler.next_run) = DateOf(scheduler.now) + 1
    /\ ClockOf(scheduler.next_run) = 3600 * RUN_WINDOW_START_HOUR

(***************************************************************************)
(* More claims about the scrapers, checked under SpecScrape                *)
(***************************************************************************)
\* The attendance flags of an entry's sub-entries, in row order.
FlagsOf(e) == [k \in 1..Len(e.sub_entries) |-> e.sub_entries[k].is_attended]

\* The rearrangements of a sequence of flags.
Rearranged(flags) ==
    { [k \in 1..Len(flags) |-> flags[p[k]]] :
        p \in { q \in [1..Len(flags) -> 1..Len(flags)] :
                    \A a, b \in 1..Len(flags) : q[a] = q[b] => a = b } }

\* The status lines 345-358 and 384-387 compute for sub-rows that carry these
\* flags in this order: state is <<all_sub_attended, notattendedflag>>.
RECURSIVE FlagsAfter(_, _)
FlagsAfter(flags, k) ==
    IF k = 0 THEN <<FALSE, TRUE>>
    ELSE LET before == FlagsAfter(flags, k - 1)
         IN  << AllSubAttendedNext(flags[k], before[2], before[1]),
                NotAttendedFlagNext(flags[k], before[2]) >>
StatusOfFlags(flags) ==
    AttendanceStatus(flags # <<>>, FlagsAfter(flags, Len(flags))[1])

\* C33: the attendance_status of a main entry does not depend on the order of
\* its sub-rows: the scraper computes the status the entry carries for every
\* rearrangement of the entry's sub-entry attendance flags.
C33_StatusIgnoresSubRowOrder ==
    op = "logbook" =>
        \A e \in Finished :
            \A flags \in Rearranged(FlagsOf(e)) :
                StatusOfFlags(flags) = e.attendance_status

\* Row r of the Program Bantu table has 6 cells and text in the first one;
\* row r has 2 cells, matches the sub-entry pattern and follows such a row.
PicMainShaped(r) ==
    Len(rows[r]) = 6 /\ \E k \in 1..Len(rows[r][1]) : rows[r][1][k] \notin WS
PicSubShaped(r) ==
    /\ Len(rows[r]) = 2 /\ PicPattern(strip(rows[r][2])).matched
    /\ \E m \in 1..(r - 1) : PicMainShaped(m)

\* The last row before r with 6 cells and text in the first one.
NearestPic(r) ==
    CHOOSE m \in 1..(r - 1) :
        /\ PicMainShaped(m)
        /\ \A k \in (m + 1)..(r - 1) : ~PicMainShaped(k)

\* C34: when get_bantu_pic_entries returns a list, every row with 6 cells and
\* text in the first cell has exactly one entry in it, in row order, and
\* every 2-cell row that matches the sub-entry pattern has exactly one
\* sub-entry, under the last such 6-cell row before it; the look-ahead for
\* the attendance marker makes the scraper skip no such row.
C34_NoRowSkippedByLookAhead ==
    (op = "pic" /\ pc = "done" /\ result.kind = "list") =>
        /\ \A r \in 1..Len(rows) :
              PicMainShaped(r) =>
                  Cardinality({k \in 1..Len(entries) : entries[k].row = r}) = 1
        /\ \A a, b \in 1..Len(entries) : a < b => entries[a].row < entries[b].row
        /\ \A r \in 1..Len(rows) :
              PicSubShaped(r) =>
                  /\ Cardinality({ <<k, n>> \in (1..Len(entries)) \X (1..MaxRows) :
                                      /\ n <= Len(entries[k].sub_entries)
                                      /\ entries[k].sub_entries[n].row = r }) = 1
                  /\ AttachedTo(r, NearestPic(r))

(***************************************************************************)
(* More claims about the submitting operations, checked under SpecSubmit   *)
(***************************************************************************)
\* The title of a sub-row of the RPP table: the text of its first cell before
\* the bracket that opens the date.
TitleOfRow(row) ==
    LET text == row.cells[1]
        opens == {k \in 1..Len(text) : text[k] = "("}
    IN  IF opens = {} THEN text
        ELSE LET k == Min(opens)
             IN  SubSeq(text, 1, IF k > 1 /\ text[k - 1] \in WS THEN k - 2 ELSE k - 1)

\* Row r of the fetched table is a sub-row of the main entry asked for.
UnderAskedMain(r) ==
    \E m \in 1..(r - 1) :
        /\ Len(submit.table[m].cells) = 5
        /\ submit.table[m].cells[1] = <<"1">>
        /\ \A k \in (m + 1)..r : Len(submit.table[k].cells) = 2

\* C35: post_attendance_for_sub_entry sends at most one attendance POST, and
\* the five path segments it sends are those of the Presensi control of a
\* sub-row, under the main row with the index asked for, whose title equals
\* sub_entry_title_to_find, never of a sub-row whose text merely contains it.
C35_PostsOnlyForTheTitledSubRow ==
    submit.op = "post_attendance_for_sub_entry" =>
        /\ Len(submit.posts) <= 1
        /\ \A p \in 1..Len(submit.posts) :
              \E r \in 1..Len(submit.table) :
                  /\ UnderAskedMain(r)
                  /\ TitleOfRow(submit.table[r]) = sub_entry_title_to_find
                  /\ \E a \in 1..Len(submit.table[r].anchors) :
                        LET parts == submit.table[r].anchors[a].ajaxify
                            n == Len(parts)
                        IN  /\ n >= 5
                            /\ submit.posts[p].data["timelineId"] = parts[n - 4]
                            /\ submit.posts[p].data["rppJenisProgram"] = parts[n - 3]
                            /\ submit.posts[p].data["rppMhsId"] = parts[n - 2]
                            /\ submit.posts[p].data["kegiatanMhsId"] = parts[n - 1]
                            /\ submit.posts[p].data["programMhsId"] = parts[n]

(***************************************************************************)
(* A claim about exceptions, checked under SpecScrape                      *)
(***************************************************************************)
\* C36: an operation reports failure through its return value and lets no
\* exception escape: once get_logbook_entries_by_id or get_bantu_pic_entries
\* is done it has returned a list or None, also for a table with a
\* main-shaped row whose first cell is no integer.
C36_NoExceptionEscapes ==
    (op \in {"logbook", "pic"} /\ pc = "done") =>
        /\ result.kind \in {"list", "None"}
        /\ (\E r \in 1..Len(rows) :
                /\ Len(rows[r]) = (IF op = "logbook" THEN 5 ELSE 6)
                /\ \E k \in 1..Len(rows[r][1]) : rows[r][1][k] \notin WS
                /\ ~Numbered(rows[r][1])
                /\ scans[r] > 0)
            => result.kind = "None"

(***************************************************************************)
(* A claim about the ranges parse_datetime_range returns, checked under    *)
(* SpecParse                                                               *)
(***************************************************************************)
\* Datetime a is not later than datetime b: the order of <<year, month, day,
\* hour, minute>>, the sign of (b - a).total_seconds().
RECURSIVE NotLaterFrom(_, _, _)
NotLaterFrom(a, b, k) ==
    IF k > Len(a) THEN TRUE
    ELSE IF a[k] # b[k] THEN a[k] < b[k]
    ELSE NotLaterFrom(a, b, k + 1)
NotLater(a, b) == NotLaterFrom(a, b, 1)

\* C38: parse_datetime_range returns either (None, None) or a range with both
\* bounds set and start <= end, for same-day and overnight strings alike, so
\* that the duration handle_generate_timeline adds for a range (lines 522-524
\* and 533-536) is never negative.
C38_RangeStartsBeforeItEnds ==
    parsed.kind = "pair" =>
        LET start_time == parsed.value[1]
            end_time == parsed.value[2]
        IN  /\ (start_time = NoDatetime) <=> (end_time = NoDatetime)
            /\ (start_time # NoDatetime /\ end_time # NoDatetime)
                    => NotLater(start_time, end_time)

(***************************************************************************)
(* A claim about the interactive menu, checked under SpecMenu              *)
(***************************************************************************)
\* C37: in the menu loop a failed "Change Account" (empty username or
\* password, or a failed login) leaves the session as it was: after any
\* sequence of choices the session variable is a logged-in Session, never
\* None, and every handler is called with a Session.
C37_MenuSessionNeverNone ==
    menu.pc = "menu" =>
        /\ menu.session # None
        /\ \A k \in 1..Len(menu.done) : menu.done[k].session # None

====
